---- MODULE Spec2Model ----
(***************************************************************************)
(* A model of the client-side logic that src/build.py emits into the      *)
(* generated page (the script bundle of generate_html) and of the page    *)
(* generators that decide which checkbox controls the page holds.         *)
(*                                                                         *)
(* Texts are the source's texts without their leading emoji, arrows        *)
(* written "->" and umlauts transliterated; a css class '' is "".          *)
(***************************************************************************)
EXTENDS Integers, Sequences, FiniteSets, TLC

VARIABLES
    call,          \* the argument of the pure function under evaluation
    ret,           \* what it returned: <<>> before the call, <<result>> after
    doc,           \* the input documents the page was generated from
    controls,      \* the page's <input type="checkbox"> elements, in document order
    checked,       \* cb.checked of each of them
    itemClass,     \* whether the enclosing .item carries the class 'checked'
    adviceEl,      \* the advice-<slot> elements: textContent and className
    progress,      \* progressBar / progressText
    input,         \* input.value of the stat-<stat> inputs
    fillEl,        \* the fill-<stat> elements: style.width and className
    valueEl,       \* textContent of the value-<stat> elements
    recEl,         \* the stat-recommendations element
    localStorage,  \* the browser's localStorage: key -> string
    cards,         \* the .boss-card elements, in document order
    hidden,        \* whether each of them carries the class 'hidden'
    query          \* the values of the bossSearch and glossarySearch inputs

pureVars == <<call, ret, cards, hidden, query>>

pageVars == <<doc, controls, checked, itemClass, adviceEl, progress,
              input, fillEl, valueEl, recEl, localStorage, cards, hidden, query>>

vars == <<call, ret, doc, controls, checked, itemClass, adviceEl, progress,
          input, fillEl, valueEl, recEl, localStorage, cards, hidden, query>>

(***************************************************************************)
(* Gear Checker Logic: const gearAdvice (build.py 361-510)                 *)
(***************************************************************************)

Slots == <<"mh", "oh", "helm", "shoulders", "chest", "gloves", "bracers",
           "belt", "pants", "boots", "ring1", "ring2", "amulet">>

SlotSet == {Slots[i] : i \in 1..Len(Slots)}

\* The data-stat checkboxes rendered for each data-slot, in document order.
SlotStats(slot) ==
    CASE slot = "mh"        -> <<"socket", "dex", "dmgpct", "ad", "vit", "lph", "cdr", "rcr">>
      [] slot = "oh"        -> <<"socket", "dex", "dmgpct", "ad", "vit", "lph", "cdr", "rcr">>
      [] slot = "helm"      -> <<"socket", "dex", "chc", "skill", "vit", "allres">>
      [] slot = "shoulders" -> <<"dex", "rcr", "cdr", "ad", "vit", "allres", "life">>
      [] slot = "chest"     -> <<"sockets", "dex", "vit", "allres", "elite", "armor", "life">>
      [] slot = "gloves"    -> <<"dex", "chc", "chd", "rcr", "ad", "as", "vit">>
      [] slot = "bracers"   -> <<"ele", "chc", "dex", "vit", "lph", "allres", "armor">>
      [] slot = "belt"      -> <<"dex", "vit", "allres", "life", "armor">>
      [] slot = "pants"     -> <<"sockets", "dex", "vit", "allres", "armor">>
      [] slot = "boots"     -> <<"dex", "vit", "skill", "allres", "armor", "ms">>
      [] slot = "ring1"     -> <<"socket", "chc", "chd", "dex", "ad", "as", "rcr">>
      [] slot = "ring2"     -> <<"socket", "chc", "chd", "dex", "ad", "as", "rcr">>
      [] slot = "amulet"    -> <<"socket", "ele", "chc", "chd", "dex", "rcr">>

StatSet(slot) == {SlotStats(slot)[i] : i \in 1..Len(SlotStats(slot))}

\* gearAdvice[slot].priority
priority(slot) ==
    CASE slot = "mh"        -> <<"socket", "dex", "dmgpct", "ad">>
      [] slot = "oh"        -> <<"socket", "dex", "dmgpct", "ad">>
      [] slot = "helm"      -> <<"socket", "dex", "chc", "skill">>
      [] slot = "shoulders" -> <<"dex", "rcr", "cdr", "ad">>
      [] slot = "chest"     -> <<"sockets", "dex", "vit", "allres">>
      [] slot = "gloves"    -> <<"dex", "chc", "chd", "rcr">>
      [] slot = "bracers"   -> <<"ele", "chc", "dex", "vit">>
      [] slot = "belt"      -> <<"dex", "vit", "allres", "life">>
      [] slot = "pants"     -> <<"sockets", "dex", "vit", "allres">>
      [] slot = "boots"     -> <<"dex", "vit", "skill", "allres">>
      [] slot = "ring1"     -> <<"socket", "chc", "chd", "dex">>
      [] slot = "ring2"     -> <<"socket", "chc", "chd", "dex">>
      [] slot = "amulet"    -> <<"socket", "ele", "chc", "chd">>

PrioritySet(slot) == {priority(slot)[i] : i \in 1..Len(priority(slot))}

\* has.k as a condition: a key the object does not hold reads undefined,
\* which is falsy.
H(has, k) == k \in DOMAIN has /\ has[k]

\* An object literal {text, cls} returned by a getAdvice.
R(text, cls) == [text |-> text, cls |-> cls]

\* The low-value stat named with lph tried before vit.
VitOrLphLphFirst(has) == IF H(has, "lph") THEN "LpH" ELSE "Vit"

\* 'Vit' or 'LpH': (has.vit ? 'Vit' : 'LpH')
VitOrLph(has) == IF H(has, "vit") THEN "Vit" ELSE "LpH"


\* mhAdvice with the socket test written has.socket === false: a key the
\* object does not hold no longer counts as absent.
mhAdviceStrictFalse(has) ==
    IF "socket" \in DOMAIN has /\ ~has["socket"]
        THEN R("Ramaladnis Gift fuer Socket nutzen! Dann schlechtesten Stat rerolled.", "")
    ELSE IF ~H(has, "dex") THEN R("Dex fehlt -> anderer Stat zu DEX rerolled", "")
    ELSE IF ~H(has, "dmgpct") /\ (H(has, "vit") \/ H(has, "lph"))
        THEN R(VitOrLph(has) \o " -> +10% Damage rerolled", "")
    ELSE IF ~H(has, "dmgpct") /\ ~H(has, "ad") THEN R("Schlechtesten Stat -> +10% Damage rerolled", "")
    ELSE IF H(has, "vit") \/ H(has, "lph") THEN R(VitOrLph(has) \o " -> Area Damage rerolled", "good")
    ELSE IF H(has, "socket") /\ H(has, "dex") /\ H(has, "dmgpct") /\ H(has, "ad")
        THEN R("PERFEKT! Nichts rerolled noetig!", "perfect")
    ELSE R("Gute Stats! Optional: +AD oder CDR", "good")

mhAdvice(has) ==
    IF ~H(has, "socket") THEN R("Ramaladnis Gift fuer Socket nutzen! Dann schlechtesten Stat rerolled.", "")
    ELSE IF ~H(has, "dex") THEN R("Dex fehlt -> anderer Stat zu DEX rerolled", "")
    ELSE IF ~H(has, "dmgpct") /\ (H(has, "vit") \/ H(has, "lph"))
        THEN R(VitOrLph(has) \o " -> +10% Damage rerolled", "")
    ELSE IF ~H(has, "dmgpct") /\ ~H(has, "ad") THEN R("Schlechtesten Stat -> +10% Damage rerolled", "")
    ELSE IF H(has, "vit") \/ H(has, "lph") THEN R(VitOrLph(has) \o " -> Area Damage rerolled", "good")
    ELSE IF H(has, "socket") /\ H(has, "dex") /\ H(has, "dmgpct") /\ H(has, "ad")
        THEN R("PERFEKT! Nichts rerolled noetig!", "perfect")
    ELSE R("Gute Stats! Optional: +AD oder CDR", "good")

ohAdvice(has) ==
    IF ~H(has, "socket") THEN R("Ramaladnis Gift fuer Socket nutzen!", "")
    ELSE IF ~H(has, "dex") THEN R("Dex fehlt -> rerolled zu DEX", "")
    ELSE IF ~H(has, "dmgpct") /\ (H(has, "vit") \/ H(has, "lph"))
        THEN R(VitOrLph(has) \o " -> +10% Damage", "")
    ELSE IF H(has, "vit") \/ H(has, "lph") THEN R(VitOrLph(has) \o " -> Area Damage", "good")
    ELSE IF H(has, "socket") /\ H(has, "dex") /\ H(has, "dmgpct")
        THEN R("Sehr gut! Optional: AD", "perfect")
    ELSE R("Okay Stats", "good")


\* helmAdvice with the Vit replacement rule tried before the All Res one.
helmAdviceVitFirst(has) ==
    IF ~H(has, "socket") THEN R("Socket fehlt! -> Reroll zu Socket (fuer Topaz = RCR!)", "")
    ELSE IF ~H(has, "dex") THEN R("Dex fehlt -> rerolled zu DEX", "")
    ELSE IF ~H(has, "chc") /\ H(has, "vit")
        THEN R("Vit -> CHC 6% rerolled (Defense woanders holen)", "")
    ELSE IF ~H(has, "chc") /\ H(has, "allres") THEN R("All Res -> CHC 6% rerolled", "")
    ELSE IF ~H(has, "chc") THEN R("Schlechtesten Stat -> CHC 6%", "")
    ELSE IF H(has, "socket") /\ H(has, "dex") /\ H(has, "chc") /\ H(has, "skill")
        THEN R("PERFEKT!", "perfect")
    ELSE IF H(has, "socket") /\ H(has, "dex") /\ H(has, "chc")
        THEN R("Sehr gut! TR% waere Bonus", "good")
    ELSE R("Okay", "good")

helmAdvice(has) ==
    IF ~H(has, "socket") THEN R("Socket fehlt! -> Reroll zu Socket (fuer Topaz = RCR!)", "")
    ELSE IF ~H(has, "dex") THEN R("Dex fehlt -> rerolled zu DEX", "")
    ELSE IF ~H(has, "chc") /\ H(has, "allres") THEN R("All Res -> CHC 6% rerolled", "")
    ELSE IF ~H(has, "chc") /\ H(has, "vit")
        THEN R("Vit -> CHC 6% rerolled (Defense woanders holen)", "")
    ELSE IF ~H(has, "chc") THEN R("Schlechtesten Stat -> CHC 6%", "")
    ELSE IF H(has, "socket") /\ H(has, "dex") /\ H(has, "chc") /\ H(has, "skill")
        THEN R("PERFEKT!", "perfect")
    ELSE IF H(has, "socket") /\ H(has, "dex") /\ H(has, "chc")
        THEN R("Sehr gut! TR% waere Bonus", "good")
    ELSE R("Okay", "good")

shouldersAdvice(has) ==
    IF ~H(has, "dex") THEN R("Dex fehlt -> rerolled", "")
    ELSE IF ~H(has, "rcr") /\ H(has, "life") THEN R("Life% -> RCR 8% (Spirit Management!)", "")
    ELSE IF ~H(has, "rcr") /\ ~H(has, "cdr") THEN R("Defensiven Stat -> RCR 8% oder CDR 8%", "")
    ELSE IF H(has, "dex") /\ H(has, "rcr") /\ H(has, "cdr") /\ H(has, "ad")
        THEN R("PERFEKT!", "perfect")
    ELSE IF H(has, "dex") /\ (H(has, "rcr") \/ H(has, "cdr"))
        THEN R("Gut! Vit/AllRes okay fuer Defense", "good")
    ELSE R("Okay", "good")


\* chestAdvice with the dex rule tried before the sockets rule.
chestAdviceDexFirst(has) ==
    IF ~H(has, "dex") THEN R("Dex fehlt -> rerolled", "")
    ELSE IF ~H(has, "sockets") THEN R("3 Sockets fehlen! -> Reroll!", "")
    ELSE IF ~H(has, "vit") THEN R("Schlechtesten Stat -> Vit", "")
    ELSE IF ~H(has, "allres") /\ ~H(has, "elite") /\ H(has, "life")
        THEN R("Life% -> All Res oder Elite DR%", "")
    ELSE IF H(has, "sockets") /\ H(has, "dex") /\ H(has, "vit")
            /\ (H(has, "allres") \/ H(has, "elite"))
        THEN R("PERFEKT!", "perfect")
    ELSE R("Gut! Chest ist defensiv", "good")

chestAdvice(has) ==
    IF ~H(has, "sockets") THEN R("3 Sockets fehlen! -> Reroll!", "")
    ELSE IF ~H(has, "dex") THEN R("Dex fehlt -> rerolled", "")
    ELSE IF ~H(has, "vit") THEN R("Schlechtesten Stat -> Vit", "")
    ELSE IF ~H(has, "allres") /\ ~H(has, "elite") /\ H(has, "life")
        THEN R("Life% -> All Res oder Elite DR%", "")
    ELSE IF H(has, "sockets") /\ H(has, "dex") /\ H(has, "vit")
            /\ (H(has, "allres") \/ H(has, "elite"))
        THEN R("PERFEKT!", "perfect")
    ELSE R("Gut! Chest ist defensiv", "good")

glovesAdvice(has) ==
    IF ~H(has, "dex") THEN R("Dex fehlt!", "")
    ELSE IF ~H(has, "chc") /\ ~H(has, "chd")
        THEN R("CHC UND CHD fehlen! Gloves sind OFFENSIV! -> CHC rerolled", "")
    ELSE IF ~H(has, "chc") THEN R("Schlechtesten Stat -> CHC 10%", "")
    ELSE IF ~H(has, "chd") /\ H(has, "vit") THEN R("Vit -> CHD 50% (Gloves = Offense!)", "")
    ELSE IF ~H(has, "chd") THEN R("Schlechtesten Stat -> CHD 50%", "")
    ELSE IF H(has, "dex") /\ H(has, "chc") /\ H(has, "chd")
            /\ (H(has, "rcr") \/ H(has, "ad"))
        THEN R("PERFEKT!", "perfect")
    ELSE IF H(has, "dex") /\ H(has, "chc") /\ H(has, "chd")
        THEN R("Core Stats da! 4. Stat: RCR/AD ideal", "good")
    ELSE R("Okay", "good")


\* bracersAdvice without its dex rule.
bracersAdviceNoDex(has) ==
    IF ~H(has, "ele") /\ ~H(has, "chc")
        THEN R("Cold% UND CHC fehlen! -> Cold% 20% rerolled (riesiger DMG Boost!)", "")
    ELSE IF ~H(has, "ele") THEN R("Schlechtesten Stat -> Cold% 20% (WICHTIG!)", "")
    ELSE IF ~H(has, "chc") THEN R("Schlechtesten Stat -> CHC 6%", "")
    ELSE IF H(has, "ele") /\ H(has, "chc") /\ H(has, "dex")
            /\ (H(has, "vit") \/ H(has, "lph"))
        THEN R("PERFEKT!", "perfect")
    ELSE R("Gut!", "good")

bracersAdvice(has) ==
    IF ~H(has, "ele") /\ ~H(has, "chc")
        THEN R("Cold% UND CHC fehlen! -> Cold% 20% rerolled (riesiger DMG Boost!)", "")
    ELSE IF ~H(has, "ele") THEN R("Schlechtesten Stat -> Cold% 20% (WICHTIG!)", "")
    ELSE IF ~H(has, "chc") THEN R("Schlechtesten Stat -> CHC 6%", "")
    ELSE IF ~H(has, "dex") THEN R("-> Dex", "")
    ELSE IF H(has, "ele") /\ H(has, "chc") /\ H(has, "dex")
            /\ (H(has, "vit") \/ H(has, "lph"))
        THEN R("PERFEKT!", "perfect")
    ELSE R("Gut!", "good")

beltAdvice(has) ==
    IF ~H(has, "dex") THEN R("Dex fehlt", "")
    ELSE IF ~H(has, "vit") THEN R("-> Vit", "")
    ELSE IF ~H(has, "allres") /\ ~H(has, "life") THEN R("Schlechtesten -> All Res oder Life%", "")
    ELSE IF H(has, "dex") /\ H(has, "vit") /\ H(has, "allres")
        THEN R("PERFEKT! Belt ist rein defensiv", "perfect")
    ELSE R("Gut! Belt = Defense", "good")

pantsAdvice(has) ==
    IF ~H(has, "sockets") THEN R("2 Sockets fehlen!", "")
    ELSE IF ~H(has, "dex") THEN R("Dex fehlt", "")
    ELSE IF ~H(has, "vit") THEN R("-> Vit", "")
    ELSE IF ~H(has, "allres") /\ ~H(has, "armor") THEN R("-> All Res oder Armor", "")
    ELSE IF H(has, "sockets") /\ H(has, "dex") /\ H(has, "vit") /\ H(has, "allres")
        THEN R("PERFEKT!", "perfect")
    ELSE R("Gut! Pants = Defense", "good")

bootsAdvice(has) ==
    IF ~H(has, "dex") THEN R("Dex fehlt", "")
    ELSE IF H(has, "ms") THEN R("Movement Speed -> TR% 15%! (MS aus Paragon!)", "")
    ELSE IF ~H(has, "skill") THEN R("Schlechtesten Stat -> TR% 15% (mehr Damage!)", "")
    ELSE IF ~H(has, "vit") THEN R("-> Vit", "")
    ELSE IF H(has, "dex") /\ H(has, "vit") /\ H(has, "skill") /\ H(has, "allres")
        THEN R("PERFEKT!", "perfect")
    ELSE R("Gut!", "good")

ring1Advice(has) ==
    IF ~H(has, "socket") THEN R("Socket fehlt! -> IMMER zuerst Socket rerolled!", "")
    ELSE IF ~H(has, "chc") /\ ~H(has, "chd") THEN R("-> CHC oder CHD", "")
    ELSE IF H(has, "socket") /\ H(has, "chc") /\ H(has, "chd")
        THEN R("Top Stats! Dex/AD waere Bonus", "perfect")
    ELSE IF H(has, "socket") /\ (H(has, "chc") \/ H(has, "chd"))
        THEN R("Okay, Socket + 1 Crit Stat", "good")
    ELSE R("Socket da = nutzbar", "good")

ring2Advice(has) ==
    IF ~H(has, "socket") THEN R("Socket fehlt! -> IMMER zuerst Socket!", "")
    ELSE IF ~H(has, "chc") /\ ~H(has, "chd") THEN R("-> CHC oder CHD", "")
    ELSE IF H(has, "socket") /\ H(has, "chc") /\ H(has, "chd") THEN R("Top Stats!", "perfect")
    ELSE IF H(has, "socket") /\ (H(has, "chc") \/ H(has, "chd")) THEN R("Okay", "good")
    ELSE R("Socket da = nutzbar", "good")

amuletAdvice(has) ==
    IF ~H(has, "socket")
        THEN R("Socket fehlt! -> IMMER zuerst Socket fuer Legendary Gem!", "")
    ELSE IF ~H(has, "ele") /\ ~H(has, "chc") /\ ~H(has, "chd")
        THEN R("-> Cold% 20% (bester Stat fuer Ammy!)", "")
    ELSE IF ~H(has, "chc") /\ ~H(has, "chd") THEN R("-> CHC 10% oder CHD 100%", "")
    ELSE IF H(has, "socket") /\ H(has, "ele") /\ H(has, "chc") /\ H(has, "chd")
        THEN R("PERFEKT! Traumhaftes Amulet!", "perfect")
    ELSE IF H(has, "socket") /\ ((H(has, "ele") /\ H(has, "chc"))
                                  \/ (H(has, "ele") /\ H(has, "chd"))
                                  \/ (H(has, "chc") /\ H(has, "chd")))
        THEN R("Sehr gut! 3 gute Stats", "good")
    ELSE R("Socket da = nutzbar", "good")

\* gearAdvice[slot].getAdvice(has)
getAdvice(slot, has) ==
    CASE slot = "mh"        -> mhAdvice(has)
      [] slot = "oh"        -> ohAdvice(has)
      [] slot = "helm"      -> helmAdvice(has)
      [] slot = "shoulders" -> shouldersAdvice(has)
      [] slot = "chest"     -> chestAdvice(has)
      [] slot = "gloves"    -> glovesAdvice(has)
      [] slot = "bracers"   -> bracersAdvice(has)
      [] slot = "belt"      -> beltAdvice(has)
      [] slot = "pants"     -> pantsAdvice(has)
      [] slot = "boots"     -> bootsAdvice(has)
      [] slot = "ring1"     -> ring1Advice(has)
      [] slot = "ring2"     -> ring2Advice(has)
      [] slot = "amulet"    -> amuletAdvice(has)

\* The qualitative tier of a result: css class '' is tier none.
Tier(r) == IF r.cls = "" THEN "none" ELSE r.cls

(***************************************************************************)
(* Stat Calculator Logic (build.py 532-649)                                *)
(*                                                                         *)
(* A string is a sequence of one-character strings.  A stat value is kept  *)
(* in tenths (43.3 is 433), so entries carry at most one decimal.          *)
(***************************************************************************)

stats == <<"cdr", "rcr", "chc", "chd", "cold", "ad">>

StatNames == {stats[i] : i \in 1..Len(stats)}

\* const statBreakpoints, in the page's units
statBreakpoints(stat) ==
    CASE stat = "cdr"  -> [min |-> 45,  good |-> 50,  perfect |-> 55,  max |-> 80,  unit |-> "%"]
      [] stat = "rcr"  -> [min |-> 40,  good |-> 50,  perfect |-> 55,  max |-> 80,  unit |-> "%"]
      [] stat = "chc"  -> [min |-> 40,  good |-> 50,  perfect |-> 55,  max |-> 65,  unit |-> "%"]
      [] stat = "chd"  -> [min |-> 350, good |-> 450, perfect |-> 500, max |-> 600, unit |-> "%"]
      [] stat = "cold" -> [min |-> 20,  good |-> 40,  perfect |-> 40,  max |-> 40,  unit |-> "%"]
      [] stat = "ad"   -> [min |-> 50,  good |-> 100, perfect |-> 130, max |-> 150, unit |-> "%"]

\* A breakpoint in tenths, comparable with a stat value.
Tenths(n) == n * 10

\* The max attribute of <input type="number" id="stat-...">; every min is 0.
inputMax(stat) ==
    CASE stat = "chd" -> 1000
      [] stat = "ad"  -> 200
      [] OTHER        -> 100

\* statTips[stat][kind], named rather than spelled out.
statTips(stat, kind) == "statTips." \o stat \o "." \o kind

DigitChars == <<"0", "1", "2", "3", "4", "5", "6", "7", "8", "9">>

IsDigit(c) == \E d \in 1..10 : DigitChars[d] = c

DigitVal(c) == (CHOOSE d \in 1..10 : DigitChars[d] = c) - 1

\* The number of consecutive digits of s from position i on.
RECURSIVE DigitRun(_, _)
DigitRun(s, i) ==
    IF i <= Len(s) /\ IsDigit(s[i]) THEN 1 + DigitRun(s, i + 1) ELSE 0

\* The value of the digits s[i .. i+n-1].
RECURSIVE DigitsVal(_, _, _)
DigitsVal(s, i, n) ==
    IF n = 0 THEN 0 ELSE DigitsVal(s, i, n - 1) * 10 + DigitVal(s[i + n - 1])

\* The decimal digits of a natural number.
RECURSIVE NatChars(_)
NatChars(n) ==
    IF n < 10 THEN <<DigitChars[n + 1]>>
    ELSE NatChars(n \div 10) \o <<DigitChars[(n % 10) + 1]>>

\* String(val) of a number given in tenths: "58", "43.3", "-5", "0".
NumberToString(v) ==
    LET a == IF v < 0 THEN -v ELSE v
        body == NatChars(a \div 10)
                  \o (IF a % 10 = 0 THEN <<>> ELSE <<".", DigitChars[(a % 10) + 1]>>)
    IN  IF v < 0 THEN <<"-">> \o body ELSE body

\* parseFloat(s): an optional sign, digits, an optional '.' and digits;
\* what follows is ignored.  [nan |-> TRUE] when no digit is found.
\* Decimals beyond the first are dropped.
parseFloat(s) ==
    LET signed == Len(s) >= 1 /\ s[1] \in {"-", "+"}
        start  == IF signed THEN 2 ELSE 1
        k1     == DigitRun(s, start)
        dot    == start + k1 <= Len(s) /\ s[start + k1] = "."
        k2     == IF dot THEN DigitRun(s, start + k1 + 1) ELSE 0
        int    == DigitsVal(s, start, k1)
        frac   == IF k2 >= 1 THEN DigitVal(s[start + k1 + 1]) ELSE 0
        mag    == int * 10 + frac
    IN  IF k1 + k2 = 0 THEN [nan |-> TRUE, v |-> 0]
        ELSE [nan |-> FALSE, v |-> IF signed /\ s[1] = "-" THEN -mag ELSE mag]

\* A valid floating-point number, the only strings an
\* <input type="number"> keeps as its value: an optional '-', then digits,
\* or digits '.' digits, or '.' digits.
ValidNumber(s) ==
    LET start == IF Len(s) >= 1 /\ s[1] = "-" THEN 2 ELSE 1
        k1    == DigitRun(s, start)
        dot   == start + k1 <= Len(s) /\ s[start + k1] = "."
        k2    == IF dot THEN DigitRun(s, start + k1 + 1) ELSE 0
    IN  /\ k1 + k2 >= 1
        /\ IF dot THEN k2 >= 1 /\ start + k1 + k2 = Len(s)
                  ELSE start + k1 - 1 = Len(s)

\* input.value of an <input type="number"> after `entry` was typed or
\* assigned: the value sanitization leaves '' for anything else.
inputValue(entry) == IF ValidNumber(entry) THEN entry ELSE <<>>

\* statVal with a lower clamp: Math.max(0, parseFloat(input.value) || 0)
statValClamped(value) ==
    LET p == parseFloat(value) IN IF p.nan \/ p.v <= 0 THEN 0 ELSE p.v

\* const val = parseFloat(input.value) || 0
statVal(value) ==
    LET p == parseFloat(value) IN IF p.nan \/ p.v = 0 THEN 0 ELSE p.v

\* const percent = Math.min(100, (val / bp.max) * 100), as the fraction
\* num / den of exact arithmetic (den > 0).
statPercent(stat, val) ==
    LET max10 == Tenths(statBreakpoints(stat).max)
    IN  [num |-> IF val * 100 < 100 * max10 THEN val * 100 ELSE 100 * max10,
         den |-> max10]

\* statStatus with the first test written val <= bp.min
statStatusMinInclusive(stat, val) ==
    LET bp == statBreakpoints(stat)
    IN  IF val <= Tenths(bp.min)
            THEN [status |-> "Niedrig", cls |-> "bad", notes |-> <<statTips(stat, "low")>>]
        ELSE IF val < Tenths(bp.good)
            THEN [status |-> "Okay", cls |-> "ok",
                  notes |-> IF stat # "cold" /\ stat # "ad"
                            THEN <<statTips(stat, "ok")>> ELSE <<>>]
        ELSE IF val >= Tenths(bp.perfect)
            THEN [status |-> "Perfekt", cls |-> "good", notes |-> <<>>]
        ELSE [status |-> "Gut", cls |-> "good", notes |-> <<>>]

\* statStatus with the okay note left out for cold only.
statStatusColdOnly(stat, val) ==
    LET bp == statBreakpoints(stat)
    IN  IF val < Tenths(bp.min)
            THEN [status |-> "Niedrig", cls |-> "bad", notes |-> <<statTips(stat, "low")>>]
        ELSE IF val < Tenths(bp.good)
            THEN [status |-> "Okay", cls |-> "ok",
                  notes |-> IF stat # "cold" THEN <<statTips(stat, "ok")>> ELSE <<>>]
        ELSE IF val >= Tenths(bp.perfect)
            THEN [status |-> "Perfekt", cls |-> "good", notes |-> <<>>]
        ELSE [status |-> "Gut", cls |-> "good", notes |-> <<>>]

\* The if / else if chain of updateStatCalculator for one stat: the status
\* text, the css class and the recommendations it pushes.
statStatus(stat, val) ==
    LET bp == statBreakpoints(stat)
    IN  IF val < Tenths(bp.min)
            THEN [status |-> "Niedrig", cls |-> "bad", notes |-> <<statTips(stat, "low")>>]
        ELSE IF val < Tenths(bp.good)
            THEN [status |-> "Okay", cls |-> "ok",
                  notes |-> IF stat # "cold" /\ stat # "ad"
                            THEN <<statTips(stat, "ok")>> ELSE <<>>]
        ELSE IF val >= Tenths(bp.perfect)
            THEN [status |-> "Perfekt", cls |-> "good", notes |-> <<>>]
        ELSE [status |-> "Gut", cls |-> "good", notes |-> <<>>]

\* value.textContent = val > 0 ? `${val}${bp.unit} - ${status}` : '-'
statText(stat, val) ==
    IF val > 0
        THEN NumberToString(val) \o <<statBreakpoints(stat).unit, " - ", statStatus(stat, val).status>>
        ELSE <<"-">>

\* What the body of stats.forEach derives from val for one stat.
evalVal(stat, val) ==
    [val     |-> val,
     percent |-> statPercent(stat, val),
     status  |-> statStatus(stat, val).status,
     cls     |-> statStatus(stat, val).cls,
     notes   |-> statStatus(stat, val).notes,
     text    |-> statText(stat, val),
     saved   |-> NumberToString(val)]

\* The body of stats.forEach for one stat, given input.value: what it
\* writes to fill-<stat>, value-<stat>, localStorage and recommendations.
evalStat(stat, value) == evalVal(stat, statVal(value))

(***************************************************************************)
(* The page: which checkboxes the generators emit (build.py 682-744, 772,  *)
(* 1456-1723, 1795, 1838-1889, 2036-2043, 2291-2301) and the handlers of   *)
(* the script bundle (build.py 295-346, 512-529, 583-660).                 *)
(***************************************************************************)

\* A checkbox with an id, and a gear-checker checkbox (data-slot, data-stat,
\* no id).
Ctl(id) == [id |-> id, slot |-> "", stat |-> ""]

Flag(slot, stat) == [id |-> "", slot |-> slot, stat |-> stat]

\* for i, x in enumerate(xs, first): id = prefix + str(i), for n items
NumberedIds(prefix, first, n) ==
    [i \in 1..n |-> Ctl(prefix \o ToString(first + i - 1))]

\* _generate_start_html: start_p<k>_<i> per step and start_gamble_<slot>;
\* nothing when there is no start guide (doc.start = <<>>).
startControls(d) ==
    IF d.start = <<>> THEN <<>>
    ELSE LET g == d.start[1]
         IN  NumberedIds("start_p1_", 1, g.p1) \o NumberedIds("start_p2_", 1, g.p2)
               \o NumberedIds("start_p3_", 1, g.p3) \o NumberedIds("start_p4_", 1, g.p4)
               \o [i \in 1..Len(g.gamble) |-> Ctl("start_gamble_" \o g.gamble[i])]

\* _generate_journey_html: j<i> from 1, 20 and 40 for chapters 2, 3, 4
journeyControls(d) ==
    NumberedIds("j", 1, d.ch2) \o NumberedIds("j", 20, d.ch3) \o NumberedIds("j", 40, d.ch4)

\* _generate_build_html: lg<i> per legendary gem
buildControls(d) == NumberedIds("lg", 1, d.gems)

\* the gear-checker checkboxes of the slots Slots[k..], in document order
RECURSIVE gearFlags(_)
gearFlags(k) ==
    IF k > Len(Slots) THEN <<>>
    ELSE [j \in 1..Len(SlotStats(Slots[k])) |-> Flag(Slots[k], SlotStats(Slots[k])[j])]
           \o gearFlags(k + 1)

\* _generate_gear_html: aug1..aug13, gr70, the gear checker, anc1..anc13
gearControls ==
    NumberedIds("aug", 1, 13) \o <<Ctl("gr70")>> \o gearFlags(1) \o NumberedIds("anc", 1, 13)

\* _generate_altar_html: altar_<seal number> per seal of unlock_order
altarControls(d) == [i \in 1..Len(d.seals) |-> Ctl("altar_" \o ToString(d.seals[i]))]

\* _generate_farm_html: bounty_<act_key> once per high-priority item of
\* the act, then cp1..cp4 and fc1, fc2
farmControls(d) ==
    [i \in 1..d.bounty[1] |-> Ctl("bounty_act_1")]
      \o [i \in 1..d.bounty[2] |-> Ctl("bounty_act_2")]
      \o [i \in 1..d.bounty[3] |-> Ctl("bounty_act_3")]
      \o NumberedIds("cp", 1, 4) \o NumberedIds("fc", 1, 2)

\* generate_html: the tabs in document order
PageControls(d) ==
    startControls(d) \o journeyControls(d) \o buildControls(d) \o gearControls
      \o altarControls(d) \o farmControls(d)

\* const key = cb.id || (cb.dataset.slot + '_' + cb.dataset.stat)
Key(c) == IF c.id # "" THEN c.id ELSE c.slot \o "_" \o c.stat

\* 'd3s{season_num}'
StateKey(d) == "d3s" \o d.season

StatKey(stat) == "stat_" \o stat

\* localStorage.setItem(k, v)
setItem(ls, k, v) == (k :> v) @@ ls

\* JSON.stringify of an object of booleans: the text, as its set of
\* members <<key, "true" | "false">>.
JSONstringify(obj) == {<<k, IF obj[k] THEN "true" ELSE "false">> : k \in DOMAIN obj}

\* JSON.parse of such a text.
JSONparse(text) == [k \in {m[1] : m \in text} |-> <<k, "true">> \in text]

\* cbs.forEach(cb => { state[key] = cb.checked }) over checkboxes lo..hi:
\* the assignments of the later half overwrite those of the earlier half.
RECURSIVE assignState(_, _, _, _)
assignState(ctl, chk, lo, hi) ==
    IF lo > hi THEN <<>>
    ELSE IF lo = hi THEN Key(ctl[lo]) :> chk[lo]
    ELSE LET mid == (lo + hi) \div 2
         IN  assignState(ctl, chk, mid + 1, hi) @@ assignState(ctl, chk, lo, mid)

\* The object saveState fills, starting from {}.
stateObject(ctl, chk) == assignState(ctl, chk, 1, Len(ctl))

\* saveState(): the storage after it
saveState(d, ctl, chk, ls) == setItem(ls, StateKey(d), JSONstringify(stateObject(ctl, chk)))

\* roundPercent with Math.floor in place of Math.round
roundPercentFloor(nChecked, total) ==
    IF total = 0 THEN [nan |-> TRUE, v |-> 0]
    ELSE [nan |-> FALSE, v |-> (100 * nChecked) \div total]

\* Math.round((checked / total) * 100); 0 / 0 is NaN
roundPercent(nChecked, total) ==
    IF total = 0 THEN [nan |-> TRUE, v |-> 0]
    ELSE [nan |-> FALSE, v |-> (200 * nChecked + total) \div (2 * total)]

\* updateProgress(): the progress bar width and text
updateProgress(chk) ==
    LET n == Cardinality({i \in DOMAIN chk : chk[i]})
    IN  [set |-> TRUE, checked |-> n, total |-> Len(chk),
         percent |-> roundPercent(n, Len(chk))]

\* The has object updateGearAdvice(slot) builds from [data-slot="slot"].
hasOf(slot, ctl, chk) ==
    LET idx == {i \in 1..Len(ctl) : ctl[i].slot = slot}
        last(st) == CHOOSE i \in idx :
                       /\ ctl[i].stat = st
                       /\ \A j \in idx : ctl[j].stat = st => j <= i
    IN  [st \in {ctl[i].stat : i \in idx} |-> chk[last(st)]]

\* updateGearAdvice(slot): what it writes to advice-<slot>
updateGearAdvice(slot, ctl, chk) ==
    LET result == getAdvice(slot, hasOf(slot, ctl, chk))
    IN  [text |-> result.text, className |-> "reroll-advice " \o result.cls]

\* recommendations with each note put before those of the earlier stats
RECURSIVE recommendationsNewestFirst(_, _)
recommendationsNewestFirst(inp, i) ==
    IF i > Len(stats) THEN <<>>
    ELSE recommendationsNewestFirst(inp, i + 1)
           \o statStatus(stats[i], statVal(inp[stats[i]])).notes

\* The recommendations pushed for stats[i..], in the order of stats.
RECURSIVE recommendations(_, _)
recommendations(inp, i) ==
    IF i > Len(stats) THEN <<>>
    ELSE statStatus(stats[i], statVal(inp[stats[i]])).notes \o recommendations(inp, i + 1)

\* The end of updateStatCalculator: innerHTML and className of
\* stat-recommendations.
summaryOf(recs) ==
    IF Len(recs) = 0
        THEN [head |-> "Alle Stats sind gut!", items |-> <<>>, className |-> "info-box all-good"]
        ELSE [head |-> "Verbesserungen:", items |-> recs, className |-> "info-box has-issues"]

\* fill.style.width = percent + '%': a negative width is no valid value and
\* leaves the property as it was.
setWidth(old, percent) == IF percent.num >= 0 THEN <<percent>> ELSE old

\* Every fill-<stat> after updateStatCalculator
fillAfter(inp, fill) ==
    [st \in StatNames |->
        [width     |-> setWidth(fill[st].width, statPercent(st, statVal(inp[st]))),
         className |-> "stat-fill " \o statStatus(st, statVal(inp[st])).cls]]

\* Every value-<stat> after updateStatCalculator
valueAfter(inp) == [st \in StatNames |-> statText(st, statVal(inp[st]))]

\* stat-recommendations after updateStatCalculator
recAfter(inp) == summaryOf(recommendations(inp, 1))

\* localStorage after the setItem(`stat_${stat}`, val) of stats[i..]
RECURSIVE saveStats(_, _, _)
saveStats(inp, ls, i) ==
    IF i > Len(stats) THEN ls
    ELSE saveStats(inp,
                   setItem(ls, StatKey(stats[i]), NumberToString(statVal(inp[stats[i]]))),
                   i + 1)

\* loadStatCalculator without the assignment of the saved value
loadedInputUnfilled(inp, ls) == inp

\* loadStatCalculator(): if (saved && input) input.value = saved
loadedInput(inp, ls) ==
    [st \in StatNames |->
        IF StatKey(st) \in DOMAIN ls /\ ls[StatKey(st)] # <<>>
            THEN inputValue(ls[StatKey(st)])
            ELSE inp[st]]

\* loadState(): cb.checked after the forEach
loadedChecked(d, ctl, chk, ls) ==
    LET state == IF StateKey(d) \in DOMAIN ls THEN JSONparse(ls[StateKey(d)])
                 ELSE JSONparse({})
    IN  [i \in 1..Len(ctl) |->
            IF Key(ctl[i]) \in DOMAIN state THEN state[Key(ctl[i])] ELSE chk[i]]

\* The page as parsed from the markup, before the script runs.
FreshAdvice == [text |-> "Waehle deine Stats...", className |-> "reroll-advice"]

FreshFill == [width |-> <<>>, className |-> "stat-fill"]

FreshRec == [head |-> "Trage oben deine Stats ein...", items |-> <<>>, className |-> "info-box"]

\* loadState(): the 'checked' class of the items, every advice box and the
\* progress bar, once the checkboxes are set.
loadedItemClass(ctl, chk) == [i \in 1..Len(ctl) |-> chk[i] /\ ctl[i].slot = ""]

loadedAdvice(ctl, chk) == [sl \in SlotSet |-> updateGearAdvice(sl, ctl, chk)]

(***************************************************************************)
(* The page's events                                                       *)
(***************************************************************************)

\* The search boxes and the cards they filter are left out.
NoSearch == cards = <<>> /\ hidden = <<>> /\ query = <<>>

\* No page: the pure functions are evaluated on their own.
NoPage ==
    /\ doc = <<>> /\ controls = <<>> /\ checked = <<>> /\ itemClass = <<>>
    /\ adviceEl = <<>> /\ progress = <<>> /\ input = <<>> /\ fillEl = <<>>
    /\ valueEl = <<>> /\ recEl = <<>> /\ localStorage = <<>>
    /\ NoSearch

\* No pure function under evaluation: the page runs.
NoCall == call = [fn |-> "none"] /\ ret = <<>>

\* The page generated from d has just been opened on storage ls: the
\* markup is parsed and the script runs loadStatCalculator(); loadState();
Opened(d, ls) ==
    /\ doc = d
    /\ controls = PageControls(doc)
    /\ input = loadedInput([st \in StatNames |-> <<>>], ls)
    /\ fillEl = fillAfter(input, [st \in StatNames |-> FreshFill])
    /\ valueEl = valueAfter(input)
    /\ recEl = recAfter(input)
    /\ localStorage = saveStats(input, ls, 1)
    /\ checked = loadedChecked(doc, controls, [i \in 1..Len(controls) |-> FALSE], localStorage)
    /\ itemClass = loadedItemClass(controls, checked)
    /\ adviceEl = loadedAdvice(controls, checked)
    /\ progress = updateProgress(checked)

\* The page is loaded again: the markup is parsed afresh and the script
\* runs on the storage as it is.
PageLoad ==
    /\ input' = loadedInput([st \in StatNames |-> <<>>], localStorage)
    /\ fillEl' = fillAfter(input', [st \in StatNames |-> FreshFill])
    /\ valueEl' = valueAfter(input')
    /\ recEl' = recAfter(input')
    /\ localStorage' = saveStats(input', localStorage, 1)
    /\ checked' = loadedChecked(doc, controls, [i \in 1..Len(controls) |-> FALSE], localStorage')
    /\ itemClass' = loadedItemClass(controls, checked')
    /\ adviceEl' = loadedAdvice(controls, checked')
    /\ progress' = updateProgress(checked')
    /\ UNCHANGED <<doc, controls, call, ret, cards, hidden, query>>

\* Toggle with the gear checker's listener writing the result to the advice
\* box of every slot
ToggleEveryBox(i) ==
    /\ checked' = [checked EXCEPT ![i] = ~checked[i]]
    /\ itemClass' = IF controls[i].slot = "" THEN [itemClass EXCEPT ![i] = checked'[i]]
                    ELSE itemClass
    /\ localStorage' = saveState(doc, controls, checked', localStorage)
    /\ progress' = updateProgress(checked')
    /\ adviceEl' = IF controls[i].slot # ""
                   THEN [sl \in SlotSet |->
                            updateGearAdvice(controls[i].slot, controls, checked')]
                   ELSE adviceEl
    /\ UNCHANGED <<doc, controls, input, fillEl, valueEl, recEl, call, ret, cards, hidden, query>>

\* The user toggles checkbox i: the 'change' listener of every checkbox
\* (saveState, updateProgress), then the gear checker's listener.
Toggle(i) ==
    /\ checked' = [checked EXCEPT ![i] = ~checked[i]]
    /\ itemClass' = IF controls[i].slot = "" THEN [itemClass EXCEPT ![i] = checked'[i]]
                    ELSE itemClass
    /\ localStorage' = saveState(doc, controls, checked', localStorage)
    /\ progress' = updateProgress(checked')
    /\ adviceEl' = IF controls[i].slot # ""
                   THEN [adviceEl EXCEPT ![controls[i].slot] =
                            updateGearAdvice(controls[i].slot, controls, checked')]
                   ELSE adviceEl
    /\ UNCHANGED <<doc, controls, input, fillEl, valueEl, recEl, call, ret, cards, hidden, query>>

\* resetAll with localStorage.clear() before its saveState() call
resetAllClearingStorage(confirmed) ==
    IF confirmed
    THEN /\ checked' = [i \in 1..Len(controls) |-> FALSE]
         /\ itemClass' = [i \in 1..Len(controls) |-> FALSE]
         /\ localStorage' = saveState(doc, controls, checked', <<>>)
         /\ progress' = updateProgress(checked')
         /\ UNCHANGED <<doc, controls, adviceEl, input, fillEl, valueEl, recEl, call, ret, cards, hidden, query>>
    ELSE UNCHANGED vars

\* resetAll without its saveState() call
resetAllNoSave(confirmed) ==
    IF confirmed
    THEN /\ checked' = [i \in 1..Len(controls) |-> FALSE]
         /\ itemClass' = [i \in 1..Len(controls) |-> FALSE]
         /\ progress' = updateProgress(checked')
         /\ UNCHANGED <<doc, controls, adviceEl, input, fillEl, valueEl, recEl, call, ret,
                        localStorage, cards, hidden, query>>
    ELSE UNCHANGED vars

\* resetAll(), the user answering the confirm() dialog with `confirmed`
resetAll(confirmed) ==
    IF confirmed
    THEN /\ checked' = [i \in 1..Len(controls) |-> FALSE]
         /\ itemClass' = [i \in 1..Len(controls) |-> FALSE]
         /\ localStorage' = saveState(doc, controls, checked', localStorage)
         /\ progress' = updateProgress(checked')
         /\ UNCHANGED <<doc, controls, adviceEl, input, fillEl, valueEl, recEl, call, ret, cards, hidden, query>>
    ELSE UNCHANGED vars

\* The user edits the stat-<st> input to `entry`: the 'input' listener
\* runs updateStatCalculator().
InputEvent(st, entry) ==
    /\ input' = [input EXCEPT ![st] = inputValue(entry)]
    /\ fillEl' = fillAfter(input', fillEl)
    /\ valueEl' = valueAfter(input')
    /\ recEl' = recAfter(input')
    /\ localStorage' = saveStats(input', localStorage, 1)
    /\ UNCHANGED <<doc, controls, checked, itemClass, adviceEl, progress, call, ret, cards, hidden, query>>

(***************************************************************************)
(* The documents, the storage the page is opened on, and what the user     *)
(* does, for the page specifications                                       *)
(***************************************************************************)

\* The longest journey chapter and the most high-priority bounty items of
\* an act among the documents.
MaxTasks == 20

MaxBounty == 2

Documents ==
    {[season |-> "30", ch2 |-> a, ch3 |-> 1, ch4 |-> 1, gems |-> 1, seals |-> <<1>>,
      bounty |-> <<b, 0, 1>>, start |-> <<>>] : a \in {1, MaxTasks}, b \in {1, MaxBounty}}

\* Nothing stored, or what an earlier session of another version of the
\* page left: a checklist mapping with an identifier the page does not
\* have, and one stat.
InitialStorages(d) ==
    {<<>>,
     [k \in {StateKey(d), StatKey("cdr")} |->
        IF k = StateKey(d)
        THEN JSONstringify([x \in {"old_task", "gr70", "mh_socket"} |-> TRUE])
        ELSE <<"5", "8">>]}

\* The checkboxes the user toggles, by key.
TouchKeys == {"j20", "bounty_act_1", "gr70", "mh_socket", "mh_dex"}

Touchable == {i \in 1..Len(controls) : Key(controls[i]) \in TouchKeys}

\* The stats the user edits and what is entered, in the page specification.
EditedStats == {"cdr"}

PageEntries == {<<>>, <<"5", "8">>, <<"-", "5">>}

Init ==
    /\ NoCall
    /\ NoSearch
    /\ \E d \in Documents : \E ls \in InitialStorages(d) : Opened(d, ls)

Next ==
    \/ PageLoad
    \/ \E i \in Touchable : Toggle(i)
    \/ \E c \in BOOLEAN : resetAll(c)
    \/ \E st \in EditedStats, e \in PageEntries : InputEvent(st, e)

Spec == Init /\ [][Next]_vars

\* The calculator alone, on a page opened on an empty storage: every stat
\* is edited, to nothing or to one of its breakpoints.
StatDocument == CHOOSE d \in Documents : d.ch2 = 1 /\ d.bounty[1] = 1

CoarseEntries(st) ==
    {<<>>} \cup {NumberToString(Tenths(x)) :
                    x \in {statBreakpoints(st).min, statBreakpoints(st).good,
                           statBreakpoints(st).perfect}}

InitStat == NoCall /\ NoSearch /\ Opened(StatDocument, <<>>)

NextStat == \E st \in StatNames : \E e \in CoarseEntries(st) : InputEvent(st, e)

SpecStat == InitStat /\ [][NextStat]_vars

\* The calculator across page loads: a few stats at a time are edited to
\* a number, and the page is loaded again.
MaxEdited == 2

LoadEntries == {<<"5", "8">>, <<"-", "5">>, <<"4", "3", ".", "3">>}

\* The stats whose input holds something else than '' or '0'.
EditedNow == {st \in StatNames : input[st] \notin {<<>>, <<"0">>}}

EditFew ==
    \E st \in StatNames : \E e \in LoadEntries :
        /\ Cardinality(EditedNow \cup {st}) <= MaxEdited
        /\ InputEvent(st, e)

NextStatLoad == EditFew \/ PageLoad

SpecStatLoad == InitStat /\ [][NextStatLoad]_vars

\* The gear checker and the calculator side by side: flags of three slots
\* are toggled and two stats are edited, in any order.
FlagKeys == {"mh_socket", "mh_dex", "helm_socket", "ring1_socket", "ring1_chc"}

GearTouchable == {i \in 1..Len(controls) : Key(controls[i]) \in FlagKeys}

TwoStats == {"cdr", "cold"}

ToggleFlag == \E i \in GearTouchable : Toggle(i)

EditStat == \E st \in TwoStats : \E e \in CoarseEntries(st) \cup {<<"-", "5">>} : InputEvent(st, e)

NextIndep == ToggleFlag \/ EditStat

SpecIndep == InitStat /\ [][NextIndep]_vars

\* Two seasons on one storage: the page generated for the first season is
\* used, then the page generated from the same documents for the next
\* season is opened in the same browser and used.
FirstSeason == "30"

NextSeason == "31"

SeasonKeys == {"gr70", "mh_socket"}

\* The page generated for season s is opened on the storage as it is.
OpenSeason(s) ==
    /\ doc.season = FirstSeason
    /\ doc' = [doc EXCEPT !.season = s]
    /\ controls' = PageControls(doc')
    /\ input' = loadedInput([st \in StatNames |-> <<>>], localStorage)
    /\ fillEl' = fillAfter(input', [st \in StatNames |-> FreshFill])
    /\ valueEl' = valueAfter(input')
    /\ recEl' = recAfter(input')
    /\ localStorage' = saveStats(input', localStorage, 1)
    /\ checked' = loadedChecked(doc', controls', [i \in 1..Len(controls') |-> FALSE], localStorage')
    /\ itemClass' = loadedItemClass(controls', checked')
    /\ adviceEl' = loadedAdvice(controls', checked')
    /\ progress' = updateProgress(checked')
    /\ UNCHANGED <<call, ret, cards, hidden, query>>

ToggleSeason == \E i \in {j \in 1..Len(controls) : Key(controls[j]) \in SeasonKeys} : Toggle(i)

EditSeason == \E e \in PageEntries : InputEvent("cdr", e)

NextSeasons == ToggleSeason \/ EditSeason \/ OpenSeason(NextSeason)

SpecSeasons == InitStat /\ [][NextSeasons]_vars

(***************************************************************************)
(* The two search boxes (build.py 348-358, 2017-2026) and the cards of the *)
(* bosses tab (1746, 1764) and of the glossary tab (2002).  A text is a    *)
(* sequence of one-character strings.                                      *)
(***************************************************************************)

\* One character of str.toLowerCase()
lowerChar(c) ==
    CASE c = "A" -> "a" [] c = "B" -> "b" [] c = "C" -> "c" [] c = "D" -> "d"
      [] c = "G" -> "g" [] c = "K" -> "k" [] c = "O" -> "o" [] c = "R" -> "r"
      [] c = "W" -> "w" [] OTHER -> c

toLowerCase(str) == [i \in 1..Len(str) |-> lowerChar(str[i])]

\* text.includes(q)
includes(text, q) ==
    \E k \in 0..(Len(text) - Len(q)) : SubSeq(text, k + 1, k + Len(q)) = q

\* <div class="boss-card" data-type="boss">: name, act badge, location
bossCard(boss) ==
    [classes |-> {"boss-card"}, type |-> "boss",
     text |-> boss.name \o <<" ", "A", "c", "t", " ">> \o boss.act \o <<" ">> \o boss.location]

\* <div class="boss-card" data-type="keywarden">
keywardenCard(kw) ==
    [classes |-> {"boss-card"}, type |-> "keywarden",
     text |-> kw.name \o <<" ", "A", "c", "t", " ">> \o kw.act \o <<" ">> \o kw.location]

\* <div class="boss-card glossary-term">: abbreviation, full name, category
termCard(term) ==
    [classes |-> {"boss-card", "glossary-term"}, type |-> "",
     text |-> term.abbr \o <<" ">> \o term.full \o <<" ">> \o term.category]

\* The cards of the page: the bosses tab comes before the glossary tab.
pageCards(bosses, keywardens, terms) ==
    [i \in 1..Len(bosses) |-> bossCard(bosses[i])]
      \o [i \in 1..Len(keywardens) |-> keywardenCard(keywardens[i])]
      \o [i \in 1..Len(terms) |-> termCard(terms[i])]

\* card.classList.toggle('hidden', !text.includes(query)) on every element
\* of querySelectorAll('.' + cls)
filtered(cls, q, cds, hid) ==
    [i \in 1..Len(cds) |->
        IF cls \in cds[i].classes
        THEN ~includes(toLowerCase(cds[i].text), toLowerCase(q))
        ELSE hid[i]]

\* The user types in the boss search box: its value becomes q.
BossSearch(q) ==
    /\ q # query.boss
    /\ query' = [query EXCEPT !.boss = q]
    /\ hidden' = filtered("boss-card", q, cards, hidden)
    /\ UNCHANGED <<call, ret, doc, controls, checked, itemClass, adviceEl, progress,
                   input, fillEl, valueEl, recEl, localStorage, cards>>

\* The user types in the glossary search box: its value becomes q.
GlossarySearch(q) ==
    /\ q # query.glossary
    /\ query' = [query EXCEPT !.glossary = q]
    /\ hidden' = filtered("glossary-term", q, cards, hidden)
    /\ UNCHANGED <<call, ret, doc, controls, checked, itemClass, adviceEl, progress,
                   input, fillEl, valueEl, recEl, localStorage, cards>>

\* The documents of the search specification, sorted as the generators sort
\* them (bosses by act and name, terms by abbreviation), and what is typed.
StoryBosses ==
    <<[name |-> <<"B", "e", "l", "i", "a", "l">>, act |-> <<"2">>,
       location |-> <<"O", "a", "s", "i", "s">>],
      [name |-> <<"D", "i", "a", "b", "l", "o">>, act |-> <<"4">>,
       location |-> <<"A", "r", "c", "h">>]>>

Keywardens ==
    <<[name |-> <<"O", "d", "e", "g">>, act |-> <<"1">>,
       location |-> <<"F", "i", "e", "l", "d", "s">>]>>

Glossaries ==
    {<<[abbr |-> <<"C", "D", "R">>, full |-> <<"C", "o", "o", "l", "d", "o", "w", "n">>,
        category |-> <<"S", "t", "a", "t", "s">>],
       [abbr |-> <<"G", "R">>, full |-> <<"R", "i", "f", "t">>,
        category |-> <<"G", "a", "m", "e">>]>>,
     <<[abbr |-> <<"A", "D">>, full |-> <<"A", "r", "e", "a">>,
        category |-> <<"S", "t", "a", "t", "s">>]>>}

Queries ==
    {<<>>, <<"d">>, <<"C", "D">>, <<"o", "a">>, <<"A", "c", "t">>, <<"r", "i", "f", "t">>,
     <<"x">>}

InitSearch ==
    /\ NoCall
    /\ Opened(StatDocument, <<>>)
    /\ cards \in {pageCards(StoryBosses, Keywardens, g) : g \in Glossaries}
    /\ hidden = [i \in 1..Len(cards) |-> FALSE]
    /\ query = [boss |-> <<>>, glossary |-> <<>>]

NextSearch == (\E q \in Queries : BossSearch(q)) \/ (\E q \in Queries : GlossarySearch(q))

SpecSearch == InitSearch /\ [][NextSearch]_vars

(***************************************************************************)
(* merge_boss_data (build.py 26-46)                                        *)
(*                                                                         *)
(* A dict is a function on its keys; d.get(k) is <<>> for None and <<v>>   *)
(* for a value.                                                            *)
(***************************************************************************)

\* d.get(k)
get(d, k) == IF k \in DOMAIN d THEN <<d[k]>> ELSE <<>>

\* d.get(k, {})
getDict(d, k) == IF k \in DOMAIN d THEN d[k] ELSE <<>>

\* d[k] = v
put(d, k, v) == (k :> v) @@ d

\* task.get('type') == kind and task.get(ref): the reference is there and
\* is no empty string
tagged(task, kind, ref) ==
    /\ get(task, "type") = <<kind>>
    /\ get(task, ref) # <<>>
    /\ get(task, ref) # <<"">>

\* The task is tagged and its id is in the table: `if boss_id in bosses`
resolves(task, kind, ref, table) == tagged(task, kind, ref) /\ task[ref] \in DOMAIN table

\* One of the two merges: task[field] = table[id] if the id resolves.
mergeRef(task, kind, ref, field, table) ==
    IF resolves(task, kind, ref, table) THEN put(task, field, table[task[ref]]) ELSE task

\* mergeTask with table.get(id, {}) attached for every tagged task
mergeTaskDefaulting(task, bosses, keywardens) ==
    IF tagged(task, "boss_kill", "boss")
        THEN put(task, "boss_data", getDict(bosses, task["boss"]))
    ELSE IF tagged(task, "keywarden", "keywarden")
        THEN put(task, "keywarden_data", getDict(keywardens, task["keywarden"]))
    ELSE task

\* mergeTask without the keywarden merge
mergeTaskBossOnly(task, bosses, keywardens) ==
    mergeRef(task, "boss_kill", "boss", "boss_data", bosses)

\* mergeTask counting, in the task, how often a record was attached
mergeTaskCounting(task, bosses, keywardens) ==
    IF resolves(task, "boss_kill", "boss", bosses)
          \/ resolves(task, "keywarden", "keywarden", keywardens)
        THEN put(mergeRef(mergeRef(task, "boss_kill", "boss", "boss_data", bosses),
                          "keywarden", "keywarden", "keywarden_data", keywardens),
                 "merges", IF "merges" \in DOMAIN task THEN task["merges"] + 1 ELSE 1)
        ELSE task

\* The body of `for task in chapter.get('tasks', [])`
mergeTask(task, bosses, keywardens) ==
    mergeRef(mergeRef(task, "boss_kill", "boss", "boss_data", bosses),
             "keywarden", "keywarden", "keywarden_data", keywardens)

ChapterKeys == {"chapter_2", "chapter_3", "chapter_4"}

\* The chapter after the loop over its tasks.
mergeChapter(chapter, bosses, keywardens) ==
    IF "tasks" \in DOMAIN chapter
        THEN put(chapter, "tasks",
                 [i \in 1..Len(chapter["tasks"]) |->
                     mergeTask(chapter["tasks"][i], bosses, keywardens)])
        ELSE chapter

\* static.get('bosses', {}).get('story_bosses', {})
bossesOf(static) == getDict(getDict(static, "bosses"), "story_bosses")

\* static.get('keywardens', {})
keywardensOf(static) == getDict(static, "keywardens")

\* merge_boss_data(journey, static): the journey it returns
merge_boss_data(journey, static) ==
    [k \in DOMAIN journey |->
        IF k \in ChapterKeys
            THEN mergeChapter(journey[k], bossesOf(static), keywardensOf(static))
            ELSE journey[k]]

\* The documents merge_boss_data is evaluated on.  A task has a name, and
\* may have a type, a boss reference (empty, known or unknown), a keywarden
\* reference, and a boss_data left by an earlier merge.
Pick(k, vals) == {<<>>} \cup {k :> v : v \in vals}

Tasks ==
    {put(ty @@ bo @@ kw @@ bd, "name", "task") :
        ty \in Pick("type", {"boss_kill", "keywarden", "other"}),
        bo \in Pick("boss", {"", "diablo", "ghost"}),
        kw \in Pick("keywarden", {"odeg", "ghost"}),
        bd \in Pick("boss_data", {[act |-> "stale"]})}

BossTask == [name |-> "kill", type |-> "boss_kill", boss |-> "diablo"]

KeywardenTask == [name |-> "hunt", type |-> "keywarden", keywarden |-> "odeg"]

\* chapter_2 holds any task; chapter_3 is missing, has no tasks or holds a
\* keywarden task; chapter_4 holds a task and then a boss task; chapter_1 is
\* none of the three chapters.
Journeys ==
    {c3 @@ [season    |-> [number |-> "30"],
            chapter_1 |-> [tasks |-> <<BossTask>>],
            chapter_2 |-> [tasks |-> <<t>>],
            chapter_4 |-> [name |-> "Slayer", tasks |-> <<t, BossTask>>]] :
        t \in Tasks,
        c3 \in Pick("chapter_3", {[name |-> "Destroyer"], [tasks |-> <<KeywardenTask>>]})}

Statics ==
    {[kadala |-> "gamble"],
     [bosses     |-> [story_bosses |-> [diablo |-> [act |-> "IV", zone |-> "Crystal Arch"]]],
      keywardens |-> [odeg |-> [act |-> "I", zone |-> "Fields of Misery"]]]}

\* merge_boss_data is called on a journey, and again on what it returned.
InitMerge ==
    /\ call \in {[fn |-> "merge_boss_data", journey |-> j, static |-> st] :
                    j \in Journeys, st \in Statics}
    /\ ret = <<>>
    /\ NoPage

Merge ==
    /\ call.fn = "merge_boss_data"
    /\ ret = <<>>
    /\ ret' = <<merge_boss_data(call.journey, call.static)>>
    /\ UNCHANGED call
    /\ UNCHANGED pageVars

MergeAgain ==
    /\ call.fn = "merge_boss_data"
    /\ Len(ret) = 1
    /\ ret' = Append(ret, merge_boss_data(ret[1], call.static))
    /\ UNCHANGED call
    /\ UNCHANGED pageVars

NextMerge == Merge \/ MergeAgain

SpecMerge == InitMerge /\ [][NextMerge]_vars

(***************************************************************************)
(* main (build.py 2315-2363)                                               *)
(*                                                                         *)
(* The directory of build.py is the set of the stems of its *.yaml files.  *)
(* A run of main is what it leaves behind: the exit status of the process, *)
(* the file whose open() raised, the listing printed, whether the output   *)
(* page was written, and the steps done, in order.                         *)
(***************************************************************************)

StaticStem == "d3-static-data"

JourneyStem == "season-journey-template"

StartStem == "season-start-guide"

GlossaryStem == "d3-glossary"

\* load_yaml(path) of a file that is not there: open() raises
\* FileNotFoundError, nothing catches it, the process exits with status 1.
raised(log, stem) ==
    [status |-> 1, error |-> <<stem>>, listing |-> <<>>, written |-> FALSE, log |-> log]

\* The loads of the two optional documents: `load_yaml(p) if p.exists()
\* else None`
optionalLoads(dir) ==
    (IF StartStem \in dir THEN <<"load start guide">> ELSE <<>>)
      \o (IF GlossaryStem \in dir THEN <<"load glossary">> ELSE <<>>)

\* The stems printed under 'Available builds:'
availableBuilds(dir) == dir \ {StaticStem, JourneyStem}

\* main with `return 0` after the listing
mainListingOnly(dir, build) ==
    IF StaticStem \notin dir THEN raised(<<>>, StaticStem)
    ELSE IF JourneyStem \notin dir THEN raised(<<"load static">>, JourneyStem)
    ELSE IF build \notin dir
        THEN [status |-> 0, error |-> <<>>, listing |-> <<availableBuilds(dir)>>,
              written |-> FALSE,
              log |-> <<"load static", "load journey">> \o optionalLoads(dir)]
    ELSE [status |-> 0, error |-> <<>>, listing |-> <<>>, written |-> TRUE,
          log |-> <<"load static", "load journey">> \o optionalLoads(dir)
                    \o <<"load build", "merge", "generate", "write">>]

\* main(), run with --build `build` in directory dir
main(dir, build) ==
    IF StaticStem \notin dir THEN raised(<<>>, StaticStem)
    ELSE IF JourneyStem \notin dir THEN raised(<<"load static">>, JourneyStem)
    ELSE IF build \notin dir
        THEN [status |-> 1, error |-> <<>>, listing |-> <<availableBuilds(dir)>>,
              written |-> FALSE,
              log |-> <<"load static", "load journey">> \o optionalLoads(dir)]
    ELSE [status |-> 0, error |-> <<>>, listing |-> <<>>, written |-> TRUE,
          log |-> <<"load static", "load journey">> \o optionalLoads(dir)
                    \o <<"load build", "merge", "generate", "write">>]

\* The directories and the builds asked for.
Stems == {StaticStem, JourneyStem, StartStem, GlossaryStem, "monk-sunwuko-tr", "dh-ua"}

BuildArgs == {"monk-sunwuko-tr", "wizard-firebird"}

InitMain ==
    /\ call \in {[fn |-> "main", dir |-> d, build |-> b] : d \in SUBSET Stems, b \in BuildArgs}
    /\ ret = <<>>
    /\ NoPage

RunMain ==
    /\ call.fn = "main"
    /\ ret = <<>>
    /\ ret' = <<main(call.dir, call.build)>>
    /\ UNCHANGED call
    /\ UNCHANGED pageVars

NextMain == RunMain

SpecMain == InitMain /\ [][NextMain]_vars

(***************************************************************************)
(* generate_html(): the eight tabs, and the two optional documents         *)
(***************************************************************************)

\* What yaml.safe_load gives: None for an empty file, else a mapping or a
\* list with its items.
None == [type |-> "None", items |-> {}]

dict(items) == [type |-> "dict", items |-> items]

list(items) == [type |-> "list", items |-> items]

\* Python's truth value of a loaded document: None, {} and [] are false.
truth(v) == v.type /= "None" /\ v.items /= {}

\* d.get(...) on a value that is no mapping raises AttributeError.
raises(v) == truth(v) /\ v.type /= "dict"

\* A file of the directory: missing, or present with what it loads as.
Absent == [exists |-> FALSE, yaml |-> None]

Present(v) == [exists |-> TRUE, yaml |-> v]

\* load_yaml(path) if path.exists() else None
loadOptional(file) == IF file.exists THEN file.yaml ELSE None

StartPlaceholder == <<"Season Start Guide", "Keine Start-Guide Daten gefunden.">>

GlossaryPlaceholder == <<"Glossar", "Keine Glossar-Daten.">>

\* The top-level keys the start tab reads.
StartKeys == {"preparation", "season_start_steps", "common_mistakes", "timeline"}

generate_start_html(start_guide) ==
    IF ~truth(start_guide)
    THEN <<"Season Start", "Keine Daten.">>
    ELSE <<"Season Start", start_guide.items \cap StartKeys>>

\* The glossary's categories and their titles; terms of other keys are not shown.
categories ==
    [stats |-> "Stats & Attribute", content |-> "Game Content", items |-> "Items & Gear",
     cube |-> "Cube & Crafting", gameplay |-> "Gameplay", classes |-> "Klassen",
     community |-> "Community & Meta"]

generate_glossary_html(glossary) ==
    IF ~truth(glossary)
    THEN <<"Glossar", "Keine Daten.">>
    ELSE <<"Glossar / Abkuerzungen",
           {<<t[2], categories[t[1]]>> : t \in {u \in glossary.items : u[1] \in DOMAIN categories}}>>

\* build_class.lower().replace(' ', '_')
classKey(build_class) ==
    CASE build_class = "Monk" -> "monk"
      [] build_class = "Demon Hunter" -> "demon_hunter"
      [] OTHER -> "unknown"

buildClass(build) ==
    IF "class" \in DOMAIN getDict(build, "build") THEN build.build.class ELSE "Unknown"

setName(journey, build) ==
    IF classKey(buildClass(build)) \in DOMAIN getDict(getDict(journey, "season"), "haedrig_gifts")
    THEN journey.season.haedrig_gifts[classKey(buildClass(build))]
    ELSE "Unknown Set"

\* The other six tabs, each as the title and the documents it is rendered from.
generate_journey_html(journey, build, set_name) == <<"journey", journey, build, set_name>>

generate_build_html(build) == <<"build", build>>

generate_gear_html(build) == <<"gear", build>>

generate_bosses_html(static) == <<"bosses", static>>

generate_altar_html(static) == <<"altar", static>>

generate_farm_html(static, build) == <<"farm", static, build>>

TabNames == {"start", "journey", "build", "gear", "bosses", "altar", "farm", "glossary"}

generate_htmlInnerPlaceholder(static, journey, build, start_guide, glossary) ==
    [start    |-> generate_start_html(start_guide),
     journey  |-> generate_journey_html(journey, build, setName(journey, build)),
     build    |-> generate_build_html(build),
     gear     |-> generate_gear_html(build),
     bosses   |-> generate_bosses_html(static),
     altar    |-> generate_altar_html(static),
     farm     |-> generate_farm_html(static, build),
     glossary |-> generate_glossary_html(glossary)]

generate_html(static, journey, build, start_guide, glossary) ==
    [start    |-> IF truth(start_guide) THEN generate_start_html(start_guide)
                  ELSE StartPlaceholder,
     journey  |-> generate_journey_html(journey, build, setName(journey, build)),
     build    |-> generate_build_html(build),
     gear     |-> generate_gear_html(build),
     bosses   |-> generate_bosses_html(static),
     altar    |-> generate_altar_html(static),
     farm     |-> generate_farm_html(static, build),
     glossary |-> IF truth(glossary) THEN generate_glossary_html(glossary)
                  ELSE GlossaryPlaceholder]

\* main() from the optional loads on, the three required documents loaded:
\* the page is written unless a renderer raised.
mainGenerate(static, journey, build, startFile, glossaryFile) ==
    IF raises(loadOptional(startFile)) \/ raises(loadOptional(glossaryFile))
    THEN [status |-> 1, error |-> <<"AttributeError">>, written |-> FALSE, page |-> <<>>]
    ELSE [status |-> 0, error |-> <<>>, written |-> TRUE,
          page |-> <<generate_html(static, merge_boss_data(journey, static), build,
                                   loadOptional(startFile), loadOptional(glossaryFile))>>]

\* The start guide and glossary files of a run: missing, empty in each way,
\* a mapping, or a list.
StartFiles ==
    {Absent, Present(None), Present(dict({})), Present(list({})),
     Present(dict({"season_start_steps"})), Present(dict({"timeline", "changelog"})),
     Present(dict({"changelog"})), Present(list({"season_start_steps"}))}

GlossaryFiles ==
    {Absent, Present(None), Present(dict({})), Present(list({})),
     Present(dict({<<"stats", "CDR">>})), Present(dict({<<"stats", "CHC">>, <<"slang", "GG">>})),
     Present(dict({<<"slang", "GG">>})), Present(list({<<"stats", "CDR">>}))}

Seasons == {[number |-> "30"], [number |-> "31", haedrig_gifts |-> [monk |-> "Sunwuko"]]}

GenJourneys ==
    {put(j, "season", s) :
        j \in {i \in Journeys : "chapter_3" \notin DOMAIN i
                                /\ i.chapter_2.tasks[1] = put(BossTask, "name", "task")},
        s \in Seasons}

Builds == {[build |-> [class |-> "Monk", short_name |-> "SWK"]], [notes |-> "draft"]}

InitGenerate ==
    /\ call \in {[fn |-> "generate", static |-> st, journey |-> j, build |-> b,
                  start |-> sf, glossary |-> gf] :
                    st \in Statics, j \in GenJourneys, b \in Builds,
                    sf \in StartFiles, gf \in GlossaryFiles}
    /\ ret = <<>>
    /\ NoPage

Generate ==
    /\ call.fn = "generate"
    /\ ret = <<>>
    /\ ret' = <<mainGenerate(call.static, call.journey, call.build, call.start, call.glossary)>>
    /\ UNCHANGED call
    /\ UNCHANGED pageVars

NextGenerate == Generate

SpecGenerate == InitGenerate /\ [][NextGenerate]_vars

(***************************************************************************)
(* updateProgress() on a document of a few checkboxes, none included       *)
(***************************************************************************)

\* The most checkboxes of such a document.
MaxBoxes == 5

BoxStates == UNION {[1..n -> BOOLEAN] : n \in 0..MaxBoxes}

InitProgress ==
    /\ call \in {[fn |-> "updateProgress", chk |-> c] : c \in BoxStates}
    /\ ret = <<>>
    /\ NoPage

EvalProgress ==
    /\ call.fn = "updateProgress"
    /\ ret = <<>>
    /\ ret' = <<updateProgress(call.chk)>>
    /\ UNCHANGED call
    /\ UNCHANGED pageVars

NextProgress == EvalProgress

SpecProgress == InitProgress /\ [][NextProgress]_vars

(***************************************************************************)
(* Evaluation of getAdvice on every flag object a slot can be given: each  *)
(* of the slot's stats present, absent (false) or missing from the object. *)
(***************************************************************************)

FlagObjects(slot) == UNION {[D -> BOOLEAN] : D \in SUBSET StatSet(slot)}

InitAdvice ==
    /\ call \in UNION {{[fn |-> "getAdvice", slot |-> s, has |-> h] :
                            h \in FlagObjects(s)} : s \in SlotSet}
    /\ ret = <<>>
    /\ NoPage

EvalAdvice ==
    /\ call.fn = "getAdvice"
    /\ ret = <<>>
    /\ ret' = <<getAdvice(call.slot, call.has)>>
    /\ UNCHANGED call
    /\ UNCHANGED pageVars

NextAdvice == EvalAdvice

SpecAdvice == InitAdvice /\ [][NextAdvice]_vars

(***************************************************************************)
(* Evaluation of one stat of the calculator on every entry of a grid       *)
(* around the stat's breakpoints, and on entries that are no numbers.      *)
(***************************************************************************)

\* How far, in tenths, the numeric entries range around each pivot.
Spread == 1

\* The values entries are taken around, in tenths: 0, the four
\* breakpoints, the input's declared max, and 58.
Pivots(stat) ==
    LET bp == statBreakpoints(stat)
    IN  {0, Tenths(bp.min), Tenths(bp.good), Tenths(bp.perfect), Tenths(bp.max),
         Tenths(inputMax(stat)), Tenths(58)}

NumericEntries(stat) == {p + d : p \in Pivots(stat), d \in (0 - Spread)..Spread}

\* Entries that are no valid number: empty, letters, digits followed by
\* letters, a lone sign, a trailing dot.
TextEntries ==
    {<<>>, <<"a", "b", "c">>, <<"1", "2", "a", "b", "c">>, <<"-">>, <<"5", ".">>}

\* call.num is the value the user means: the number typed, 0 for a text.
InitStatEval ==
    /\ call \in UNION {
            {[fn |-> "evalStat", stat |-> st, entry |-> NumberToString(n), num |-> n] :
                 n \in NumericEntries(st)}
            \cup {[fn |-> "evalStat", stat |-> st, entry |-> e, num |-> 0] :
                 e \in TextEntries} : st \in StatNames}
    /\ ret = <<>>
    /\ NoPage

EvalStat ==
    /\ call.fn = "evalStat"
    /\ ret = <<>>
    /\ ret' = <<evalStat(call.stat, inputValue(call.entry))>>
    /\ UNCHANGED call
    /\ UNCHANGED pageVars

NextStatEval == EvalStat

SpecStatEval == InitStatEval /\ [][NextStatEval]_vars

(***************************************************************************)
(* Properties of the gear advisory engine, under SpecAdvice                *)
(***************************************************************************)

Returned == ret # <<>>

\* has with every stat of the slot the object does not hold set to false
Totalised(slot, has) ==
    [k \in StatSet(slot) |-> H(has, k)]

\* The flag a slot's hard socket rule reads (build.py 368, 380, 391, 415,
\* 460, 482, 492, 502); "" for a slot without one.
SocketKey(slot) ==
    IF slot \in {"mh", "oh", "helm", "ring1", "ring2", "amulet"} THEN "socket"
    ELSE IF slot \in {"chest", "pants"} THEN "sockets"
    ELSE ""

\* The text of each slot's socket rule.
SocketText(slot) ==
    CASE slot = "mh"     -> "Ramaladnis Gift fuer Socket nutzen! Dann schlechtesten Stat rerolled."
      [] slot = "oh"     -> "Ramaladnis Gift fuer Socket nutzen!"
      [] slot = "helm"   -> "Socket fehlt! -> Reroll zu Socket (fuer Topaz = RCR!)"
      [] slot = "chest"  -> "3 Sockets fehlen! -> Reroll!"
      [] slot = "pants"  -> "2 Sockets fehlen!"
      [] slot = "ring1"  -> "Socket fehlt! -> IMMER zuerst Socket rerolled!"
      [] slot = "ring2"  -> "Socket fehlt! -> IMMER zuerst Socket!"
      [] slot = "amulet" -> "Socket fehlt! -> IMMER zuerst Socket fuer Legendary Gem!"

\* The text of each slot's cls 'perfect' rule.
PerfectText(slot) ==
    CASE slot = "mh"     -> "PERFEKT! Nichts rerolled noetig!"
      [] slot = "oh"     -> "Sehr gut! Optional: AD"
      [] slot = "belt"   -> "PERFEKT! Belt ist rein defensiv"
      [] slot = "ring1"  -> "Top Stats! Dex/AD waere Bonus"
      [] slot = "ring2"  -> "Top Stats!"
      [] slot = "amulet" -> "PERFEKT! Traumhaftes Amulet!"
      [] OTHER           -> "PERFEKT!"

AllPriorityPresent(slot, has) == \A k \in PrioritySet(slot) : H(has, k)

\* C1: on every slot with a hard socket requirement, a flag object whose
\* socket flag is false (or missing) yields that slot's socket
\* recommendation with tier none, whatever the other flags are.
C1_SocketBlocker ==
    (Returned /\ SocketKey(call.slot) # "" /\ ~H(call.has, SocketKey(call.slot)))
        => /\ ret[1].text = SocketText(call.slot)
           /\ Tier(ret[1]) = "none"

\* C1 witness: chest evaluated without its 3 sockets but with every other
\* flag of the slot present.
C1_Witness ==
    /\ Returned
    /\ call.slot = "chest"
    /\ DOMAIN call.has = StatSet("chest")
    /\ \A k \in StatSet("chest") : call.has[k] <=> (k # "sockets")
    /\ Tier(ret[1]) = "none"

\* C2 (as claimed): whenever every stat of the slot's priority list is
\* present, the result is the slot's perfect rule with tier perfect,
\* whatever the non-priority flags are.
C2_PerfectState ==
    (Returned /\ AllPriorityPresent(call.slot, call.has))
        => /\ Tier(ret[1]) = "perfect"
           /\ ret[1].text = PerfectText(call.slot)

\* C3: getAdvice returns exactly one result, with a text and a tier among
\* none, good and perfect, for every slot and flag object; the result is
\* the one of the object with its missing keys set to false.
C3_OneResult ==
    Returned =>
        /\ Len(ret) = 1
        /\ DOMAIN ret[1] = {"text", "cls"}
        /\ ret[1].text # ""
        /\ Tier(ret[1]) \in {"none", "good", "perfect"}
        /\ ret[1] = getAdvice(call.slot, Totalised(call.slot, call.has))

\* C3 witness: a result of tier good for an object that misses some of the
\* slot's keys.
C3_Witness ==
    /\ Returned
    /\ DOMAIN call.has # StatSet(call.slot)
    /\ DOMAIN call.has # {}
    /\ Tier(ret[1]) = "good"

SocketMet(slot, has) == SocketKey(slot) = "" \/ H(has, SocketKey(slot))

\* C4 (as claimed): on each of the 13 slots, socket requirement met and dex
\* absent give tier none.
C4_MainstatAllSlots ==
    (Returned /\ SocketMet(call.slot, call.has) /\ ~H(call.has, "dex"))
        => Tier(ret[1]) = "none"

\* The slots whose rule list has no dex rule (build.py 481-487, 491-497,
\* 501-508).
NoDexRuleSlots == {"ring1", "ring2", "amulet"}

\* C4 (amended): on each slot other than ring1, ring2 and amulet, socket
\* requirement met and dex absent give tier none, whatever the other flags.
C4_Mainstat ==
    (Returned /\ call.slot \notin NoDexRuleSlots
        /\ SocketMet(call.slot, call.has) /\ ~H(call.has, "dex"))
        => Tier(ret[1]) = "none"

\* C4 witness: bracers with Cold% and CHC present and dex absent, the only
\* case in which the bracers' dex rule itself decides.
C4_Witness ==
    /\ Returned
    /\ call.slot = "bracers"
    /\ H(call.has, "ele") /\ H(call.has, "chc") /\ H(call.has, "vit")
    /\ ~H(call.has, "dex")
    /\ ret[1] = R("-> Dex", "")

\* C5: helm with socket and dex present, chc absent and allres present
\* gets the "All Res -> CHC 6%" rule with tier none, for every vit and skill.
C5_HelmAllRes ==
    (Returned /\ call.slot = "helm"
        /\ H(call.has, "socket") /\ H(call.has, "dex")
        /\ ~H(call.has, "chc") /\ H(call.has, "allres"))
        => /\ ret[1].text = "All Res -> CHC 6% rerolled"
           /\ Tier(ret[1]) = "none"

\* C5 witness: the scenario socket, dex, vit, allres present and chc, skill
\* absent.
C5_Witness ==
    /\ Returned
    /\ call.slot = "helm"
    /\ call.has = [k \in StatSet("helm") |-> k \in {"socket", "dex", "vit", "allres"}]
    /\ ret[1] = R("All Res -> CHC 6% rerolled", "")

(***************************************************************************)
(* Further properties of the gear advisory engine, under SpecAdvice        *)
(***************************************************************************)

\* The text of the +10% Damage replacement rule of mh and oh, after the
\* name of the stat to replace.
DamageRuleText(slot) ==
    IF slot = "mh" THEN " -> +10% Damage rerolled" ELSE " -> +10% Damage"

\* C24: on mh and oh with socket and dex present, +% damage absent and vit
\* or lph present, the advice has tier none and names the stat to replace:
\* Vit whenever vit is present, LpH only when vit is absent.
C24_VitBeforeLph ==
    (Returned /\ call.slot \in {"mh", "oh"}
        /\ H(call.has, "socket") /\ H(call.has, "dex")
        /\ ~H(call.has, "dmgpct") /\ (H(call.has, "vit") \/ H(call.has, "lph")))
        => /\ Tier(ret[1]) = "none"
           /\ ret[1].text = (IF H(call.has, "vit") THEN "Vit" ELSE "LpH")
                                \o DamageRuleText(call.slot)

\* C24 witness: oh with vit and lph both present, where the order of the
\* two candidates decides.
C24_Witness ==
    /\ Returned
    /\ call.slot = "oh"
    /\ H(call.has, "socket") /\ H(call.has, "dex") /\ ~H(call.has, "dmgpct")
    /\ H(call.has, "vit") /\ H(call.has, "lph")
    /\ ret[1] = R("Vit -> +10% Damage", "")

\* The flags of the stats a result's text names after its arrow as what to
\* reroll into; {} for a text that names none.
RerollTargets(text) ==
    CASE text \in {"Vit -> +10% Damage rerolled", "LpH -> +10% Damage rerolled",
                   "Vit -> +10% Damage", "LpH -> +10% Damage",
                   "Schlechtesten Stat -> +10% Damage rerolled"} -> {"dmgpct"}
      [] text \in {"Vit -> Area Damage rerolled", "LpH -> Area Damage rerolled",
                   "Vit -> Area Damage", "LpH -> Area Damage"} -> {"ad"}
      [] text \in {"Dex fehlt -> anderer Stat zu DEX rerolled", "Dex fehlt -> rerolled zu DEX",
                   "-> Dex"} -> {"dex"}
      [] text \in {"All Res -> CHC 6% rerolled", "Schlechtesten Stat -> CHC 6%",
                   "Vit -> CHC 6% rerolled (Defense woanders holen)",
                   "Schlechtesten Stat -> CHC 10%",
                   "CHC UND CHD fehlen! Gloves sind OFFENSIV! -> CHC rerolled"} -> {"chc"}
      [] text \in {"Vit -> CHD 50% (Gloves = Offense!)", "Schlechtesten Stat -> CHD 50%"} -> {"chd"}
      [] text \in {"-> CHC oder CHD", "-> CHC 10% oder CHD 100%"} -> {"chc", "chd"}
      [] text = "Life% -> RCR 8% (Spirit Management!)" -> {"rcr"}
      [] text = "Defensiven Stat -> RCR 8% oder CDR 8%" -> {"rcr", "cdr"}
      [] text \in {"Schlechtesten Stat -> Vit", "-> Vit"} -> {"vit"}
      [] text = "Life% -> All Res oder Elite DR%" -> {"allres", "elite"}
      [] text = "Schlechtesten -> All Res oder Life%" -> {"allres", "life"}
      [] text = "-> All Res oder Armor" -> {"allres", "armor"}
      [] text \in {"Cold% UND CHC fehlen! -> Cold% 20% rerolled (riesiger DMG Boost!)",
                   "Schlechtesten Stat -> Cold% 20% (WICHTIG!)",
                   "-> Cold% 20% (bester Stat fuer Ammy!)"} -> {"ele"}
      [] text \in {"Movement Speed -> TR% 15%! (MS aus Paragon!)",
                   "Schlechtesten Stat -> TR% 15% (mehr Damage!)"} -> {"skill"}
      [] OTHER -> {}

\* C29 (as claimed): no result names as its reroll target a stat whose flag
\* is present on the slot.
C29_TargetAbsent ==
    Returned => \A k \in RerollTargets(ret[1].text) : ~H(call.has, k)

\* C30 (as claimed): getAdvice returns tier perfect only when every stat of
\* the slot's priority list is present.
C30_PerfectOnlyAllPriority ==
    (Returned /\ Tier(ret[1]) = "perfect") => AllPriorityPresent(call.slot, call.has)

(***************************************************************************)
(* Properties of the stat breakpoint evaluator, under SpecStatEval         *)
(***************************************************************************)

IsNumericCall == ValidNumber(call.entry)

\* The tier the breakpoints give a value (in tenths), as the spec words it.
TierOf(stat, v) ==
    LET bp == statBreakpoints(stat)
    IN  IF v < Tenths(bp.min) THEN "low"
        ELSE IF v < Tenths(bp.good) THEN "okay"
        ELSE IF v >= Tenths(bp.perfect) THEN "perfect"
        ELSE "good"

\* The tier a status text of the page stands for.
StatusTier(status) ==
    CASE status = "Niedrig" -> "low"
      [] status = "Okay"    -> "okay"
      [] status = "Gut"     -> "good"
      [] status = "Perfekt" -> "perfect"

\* C6: with a missing or non-numeric entry evaluated as 0, the tier is low
\* iff value < min, okay iff min <= value < good, perfect iff value >= good
\* and value >= perfect, good otherwise; cooldown reduction 58 is perfect
\* with fill ratio 58/80.
C6_Tier ==
    Returned =>
        LET bp == statBreakpoints(call.stat)
            v  == call.num
            t  == StatusTier(ret[1].status)
        IN  /\ ret[1].val = v
            /\ (t = "low"     <=> v < Tenths(bp.min))
            /\ (t = "okay"    <=> (Tenths(bp.min) <= v /\ v < Tenths(bp.good)))
            /\ (t = "perfect" <=> (v >= Tenths(bp.good) /\ v >= Tenths(bp.perfect)))
            /\ (t = "good"    <=> (v >= Tenths(bp.good) /\ v < Tenths(bp.perfect)))
            /\ ((call.stat = "cdr" /\ v = Tenths(58))
                    => /\ t = "perfect"
                       /\ ret[1].percent.num * 80 = 100 * 58 * ret[1].percent.den)

\* C6 witness: cooldown reduction 58 evaluated as perfect, fill 58/80.
C6_Witness ==
    /\ Returned
    /\ call.stat = "cdr"
    /\ call.entry = <<"5", "8">>
    /\ ret[1].status = "Perfekt"
    /\ ret[1].percent.num * 80 = 100 * 58 * ret[1].percent.den

\* C7 (as claimed): for every numeric value that can be entered, negative
\* ones included, the fill ratio is non-decreasing in the value, lies in
\* [0,1] and is exactly 1 when value >= max.
C7_FillRatio ==
    (Returned /\ IsNumericCall) =>
        LET pc == ret[1].percent
        IN  /\ 0 <= pc.num
            /\ pc.num <= 100 * pc.den
            /\ (call.num >= Tenths(statBreakpoints(call.stat).max) => pc.num = 100 * pc.den)
            /\ \A n \in NumericEntries(call.stat) :
                  n >= call.num =>
                      evalStat(call.stat, inputValue(NumberToString(n))).percent.num >= pc.num

OutOfRange(stat, n) == n < 0 \/ n > Tenths(inputMax(stat))

\* C9 (as claimed): an entry outside the input's declared range is
\* evaluated as 0: tier, fill ratio and persisted value are those of 0.
C9_OutOfRangeAsZero ==
    (Returned /\ IsNumericCall /\ OutOfRange(call.stat, call.num)) =>
        /\ ret[1].val = 0
        /\ StatusTier(ret[1].status) = TierOf(call.stat, 0)
        /\ ret[1].percent.num = 0
        /\ ret[1].saved = <<"0">>

\* C9 (amended): an entry outside the input's declared range is evaluated
\* and persisted as entered (tier of its value, fill min(1, value / max));
\* only an entry that is no number is evaluated as 0.
C9_OutOfRangeAsEntered ==
    /\ (Returned /\ IsNumericCall /\ OutOfRange(call.stat, call.num)) =>
          LET max10 == Tenths(statBreakpoints(call.stat).max)
          IN  /\ ret[1].val = call.num
              /\ StatusTier(ret[1].status) = TierOf(call.stat, call.num)
              /\ ret[1].saved = call.entry
              /\ IF call.num >= max10
                    THEN ret[1].percent.num = 100 * ret[1].percent.den
                    ELSE ret[1].percent.num * max10 = 100 * call.num * ret[1].percent.den
    /\ (Returned /\ ~IsNumericCall) =>
          /\ ret[1].val = 0
          /\ StatusTier(ret[1].status) = TierOf(call.stat, 0)
          /\ ret[1].percent.num = 0
          /\ ret[1].saved = <<"0">>

\* C9 witness: cooldown reduction entered above the input's max of 100
\* and evaluated as perfect, not as 0.
C9_Witness ==
    /\ Returned
    /\ call.stat = "cdr"
    /\ call.num > Tenths(inputMax("cdr"))
    /\ ret[1].val = call.num
    /\ ret[1].status = "Perfekt"

\* C23 (as claimed): a stat in the okay tier generates no improvement note
\* exactly when its max breakpoint equals its good breakpoint.
C23_ExemptIffMaxIsGood ==
    (Returned /\ StatusTier(ret[1].status) = "okay")
        => (ret[1].notes = <<>>
                <=> statBreakpoints(call.stat).max = statBreakpoints(call.stat).good)

\* The stats that get no note at the lowest value of their okay tier.
OkayExempt == {st \in StatNames : statStatus(st, Tenths(statBreakpoints(st).min)).notes = <<>>}

\* C23 (amended): a stat in the okay tier generates no improvement note
\* exactly when it is cold or ad, and its okay note otherwise; these are
\* the two exempt stats, of which only cold has max = good; cold never
\* generates an okay note and is perfect at value 40.
C23_OkayNoteExempt ==
    Returned =>
        /\ StatusTier(ret[1].status) = "okay"
            => /\ ret[1].notes = <<>> <=> call.stat \in {"cold", "ad"}
               /\ ret[1].notes # <<>> => ret[1].notes = <<statTips(call.stat, "ok")>>
        /\ OkayExempt = {"cold", "ad"} /\ Cardinality(OkayExempt) = 2
        /\ {st \in StatNames : statBreakpoints(st).max = statBreakpoints(st).good} = {"cold"}
        /\ call.stat = "cold"
            => /\ ret[1].notes # <<statTips("cold", "ok")>>
               /\ ret[1].val = Tenths(40) => StatusTier(ret[1].status) = "perfect"

\* C23 witness: area damage in its okay tier, without a note.
C23_Witness ==
    /\ Returned
    /\ call.stat = "ad"
    /\ ret[1].val = Tenths(50)
    /\ ret[1].status = "Okay"
    /\ ret[1].notes = <<>>

\* C23 witness: elemental percent 40 evaluated as perfect.
C23_WitnessCold ==
    /\ Returned
    /\ call.stat = "cold"
    /\ ret[1].val = Tenths(40)
    /\ ret[1].status = "Perfekt"

(***************************************************************************)
(* Claims about the recommendation summary, under SpecStat                 *)
(***************************************************************************)

\* The tier of a stat of the page, from the value its input holds.
PageTier(st) == TierOf(st, statVal(input[st]))

\* The note a stat contributes: one for tier low, one for tier okay unless
\* the stat is cold or ad, none otherwise.
NoteOf(st) ==
    IF PageTier(st) = "low" THEN <<statTips(st, "low")>>
    ELSE IF PageTier(st) = "okay" /\ st \notin {"cold", "ad"} THEN <<statTips(st, "ok")>>
    ELSE <<>>

NotesInOrder ==
    NoteOf("cdr") \o NoteOf("rcr") \o NoteOf("chc") \o NoteOf("chd") \o NoteOf("cold")
      \o NoteOf("ad")

NoLowNoOkayNote == \A st \in StatNames : NoteOf(st) = <<>>

AllGoodSummary == recEl.head = "Alle Stats sind gut!" /\ recEl.items = <<>>

\* C8: the summary is the fixed "all good" message with no itemized note
\* exactly when no stat is tier low and no okay note was generated;
\* otherwise it itemizes the generated notes, at most one per stat, in the
\* order cdr, rcr, chc, chd, cold, ad.
C8_Summary ==
    /\ AllGoodSummary <=> NoLowNoOkayNote
    /\ ~NoLowNoOkayNote =>
          /\ recEl.head = "Verbesserungen:"
          /\ recEl.items = NotesInOrder
          /\ Len(recEl.items) <= Len(stats)

\* All six stats at or above perfect: the summary is the "all good" message.
C8_Witness ==
    /\ \A st \in StatNames : PageTier(st) = "perfect"
    /\ AllGoodSummary

\* Two stats of different tiers contribute, in the order of stats.
C8_WitnessList ==
    /\ PageTier("cdr") = "okay" /\ PageTier("ad") = "low" /\ PageTier("cold") = "okay"
    /\ recEl.items = <<statTips("cdr", "ok"), statTips("ad", "low")>>

(***************************************************************************)
(* Claims about the checklist, under Spec                                  *)
(***************************************************************************)

\* The storage holds what saveState() writes for the checkboxes as they are.
Saved ==
    /\ StateKey(doc) \in DOMAIN localStorage
    /\ localStorage[StateKey(doc)] = JSONstringify(stateObject(controls, checked))

\* C10: saveState followed by a page load reproduces the checked state of
\* every checkbox of the page.
C10_RoundTrip == [][(Saved /\ PageLoad) => checked' = checked]_vars

\* Two checkboxes of one key are in different states when the page is saved.
C10_SharedKeySplit ==
    \E i, j \in 1..Len(controls) :
        /\ i < j /\ Key(controls[i]) = Key(controls[j])
        /\ checked[i] # checked[j]
        /\ Saved

\* The mapping persisted under the season's key, {} when there is none.
PersistedState ==
    IF StateKey(doc) \in DOMAIN localStorage THEN JSONparse(localStorage[StateKey(doc)])
    ELSE JSONparse({})

\* The persisted mapping holds every control's checked state.
PersistedIsChecked ==
    \A i \in 1..Len(controls) :
        /\ Key(controls[i]) \in DOMAIN PersistedState
        /\ PersistedState[Key(controls[i])] = checked[i]

\* A checkbox was toggled, or a reset was confirmed.
ToggledOrReset == (\E i \in Touchable : Toggle(i)) \/ resetAll(TRUE)

\* C11: after every checkbox toggle and every confirmed reset the mapping
\* persisted under the season's key holds, for every control of the page,
\* that control's checked state.
C11_PersistedAfterToggle == [][ToggledOrReset => PersistedIsChecked']_vars

(***************************************************************************)
(* Claims about updateProgress, under SpecProgress                         *)
(***************************************************************************)

PersistedAllFalse ==
    \A i \in 1..Len(controls) :
        /\ Key(controls[i]) \in DOMAIN PersistedState
        /\ ~PersistedState[Key(controls[i])]

\* C13: resetAll changes no checkbox, no persisted value and no progress
\* unless the user confirms; confirmed, it unchecks every checkbox and
\* rewrites the persisted mapping with false for every control.
C13_Reset ==
    [][/\ resetAll(FALSE) => UNCHANGED <<checked, localStorage, progress>>
       /\ resetAll(TRUE) => /\ \A i \in 1..Len(controls) : ~checked'[i]
                            /\ PersistedAllFalse']_vars

\* A confirmed reset has cleared a page on which the main hand's socket
\* was checked: the advice box still shows the advice of before.
C13_Witness ==
    /\ \A i \in 1..Len(controls) : ~checked[i]
    /\ PersistedAllFalse
    /\ adviceEl["mh"] # updateGearAdvice("mh", controls, checked)

\* What localStorage.getItem(k) finds: <<>> for null.
getItem(ls, k) == IF k \in DOMAIN ls THEN <<ls[k]>> ELSE <<>>

\* The six persisted stat values.
PersistedStats(ls) == [st \in StatNames |-> getItem(ls, StatKey(st))]

StatEdited == \E st \in EditedStats, e \in PageEntries : InputEvent(st, e)

\* C14: a reset, confirmed or declined, and a checkbox toggle leave the six
\* stat inputs and the six persisted stat values unchanged; editing a stat
\* leaves every checkbox and the persisted checklist mapping unchanged.
C14_Frame ==
    [][/\ (ToggledOrReset \/ resetAll(FALSE)) =>
            /\ input' = input
            /\ PersistedStats(localStorage') = PersistedStats(localStorage)
       /\ StatEdited =>
            /\ checked' = checked
            /\ getItem(localStorage', StateKey(doc)) = getItem(localStorage, StateKey(doc))]_vars

\* The main hand's Dex flag was toggled on and the cdr input edited to -5:
\* both are on the page and in the storage.
C14_Witness ==
    /\ \E i \in 1..Len(controls) : Key(controls[i]) = "mh_dex" /\ checked[i]
    /\ "mh_dex" \in DOMAIN PersistedState /\ PersistedState["mh_dex"]
    /\ input["cdr"] = <<"-", "5">>
    /\ PersistedStats(localStorage)["cdr"] = <<<<"-", "5">>>>

(***************************************************************************)
(* Claims about the persisted stat values, under SpecStatLoad              *)
(***************************************************************************)

\* Every stat's persisted value is what updateStatCalculator saved for the
\* input as it is.
StatsSaved ==
    \A st \in StatNames :
        getItem(localStorage, StatKey(st)) = <<NumberToString(statVal(input[st]))>>

\* C15: after a stat input was edited to a number, a page load repopulates
\* the input so that the evaluator sees the same value, hence the same tier
\* and fill ratio, for each of the six stats.
C15_StatRoundTrip ==
    [][(StatsSaved /\ PageLoad) =>
          \A st \in StatNames :
              /\ statVal(input'[st]) = statVal(input[st])
              /\ statStatus(st, statVal(input'[st])) = statStatus(st, statVal(input[st]))
              /\ statPercent(st, statVal(input'[st])) = statPercent(st, statVal(input[st]))
              /\ valueEl'[st] = valueEl[st]]_vars

\* The page was loaded again after cdr was edited to -5 and rcr to 43.3:
\* the other inputs were repopulated with the saved 0.
C15_Witness ==
    /\ input["cdr"] = <<"-", "5">>
    /\ input["rcr"] = <<"4", "3", ".", "3">>
    /\ input["ad"] = <<"0">>
    /\ StatsSaved

(***************************************************************************)
(* Claims about merge_boss_data, under SpecMerge                           *)
(***************************************************************************)

Merged == call.fn = "merge_boss_data" /\ ret # <<>>

\* The tasks of chapter k of journey j, none when there are none.
TasksOf(j, k) ==
    IF k \in DOMAIN j /\ "tasks" \in DOMAIN j[k] THEN j[k]["tasks"] ELSE <<>>

\* The task carries reference ref and the table has a record for it.
Refers(task, ref, table) == ref \in DOMAIN task /\ task[ref] \in DOMAIN table

\* The merged task holds, in field, the record the table has for task[ref].
Attached(task, merged, ref, field, table) ==
    field \in DOMAIN merged /\ merged[field] = table[task[ref]]

\* C16 as claimed: every task of the three chapters with a boss reference
\* resolving in the boss table gets that record as boss_data, and every task
\* with a resolving keywarden reference gets keywarden_data, whatever its
\* other fields are.
C16_AttachAllReferenced ==
    Merged =>
      \A k \in ChapterKeys : \A i \in 1..Len(TasksOf(call.journey, k)) :
        /\ Refers(TasksOf(call.journey, k)[i], "boss", bossesOf(call.static)) =>
              Attached(TasksOf(call.journey, k)[i], TasksOf(ret[1], k)[i],
                       "boss", "boss_data", bossesOf(call.static))
        /\ Refers(TasksOf(call.journey, k)[i], "keywarden", keywardensOf(call.static)) =>
              Attached(TasksOf(call.journey, k)[i], TasksOf(ret[1], k)[i],
                       "keywarden", "keywarden_data", keywardensOf(call.static))

HasType(task, kind) == "type" \in DOMAIN task /\ task["type"] = kind

\* C16, amended: every task of the three chapters of type boss_kill with a
\* boss reference resolving in the boss table gets that record as
\* boss_data, and every task of type keywarden with a resolving keywarden
\* reference gets keywarden_data.
C16_AttachTyped ==
    Merged =>
      \A k \in ChapterKeys : \A i \in 1..Len(TasksOf(call.journey, k)) :
        /\ (HasType(TasksOf(call.journey, k)[i], "boss_kill")
              /\ Refers(TasksOf(call.journey, k)[i], "boss", bossesOf(call.static))) =>
              Attached(TasksOf(call.journey, k)[i], TasksOf(ret[1], k)[i],
                       "boss", "boss_data", bossesOf(call.static))
        /\ (HasType(TasksOf(call.journey, k)[i], "keywarden")
              /\ Refers(TasksOf(call.journey, k)[i], "keywarden", keywardensOf(call.static))) =>
              Attached(TasksOf(call.journey, k)[i], TasksOf(ret[1], k)[i],
                       "keywarden", "keywarden_data", keywardensOf(call.static))

\* A boss_kill task of chapter 2 with a stale boss_data and the keywarden
\* task of chapter 3 got their records.
C16_Witness ==
    /\ Merged
    /\ TasksOf(call.journey, "chapter_2")[1] =
          [name |-> "task", type |-> "boss_kill", boss |-> "diablo",
           boss_data |-> [act |-> "stale"]]
    /\ TasksOf(ret[1], "chapter_2")[1]["boss_data"] = [act |-> "IV", zone |-> "Crystal Arch"]
    /\ TasksOf(call.journey, "chapter_3") = <<KeywardenTask>>
    /\ TasksOf(ret[1], "chapter_3")[1]["keywarden_data"] =
          [act |-> "I", zone |-> "Fields of Misery"]

\* Neither reference of the task resolves: it is absent, or names an id the
\* table does not have.
Unresolvable(task) ==
    /\ ~Refers(task, "boss", bossesOf(call.static))
    /\ ~Refers(task, "keywarden", keywardensOf(call.static))

\* C17: a task whose reference is absent or names an id not in the table is
\* left exactly as it was, the tasks after it are still processed, and the
\* number and order of the tasks and the rest of the journey do not change.
C17_NoOp ==
    Merged =>
      /\ DOMAIN ret[1] = DOMAIN call.journey
      /\ \A k \in DOMAIN call.journey \ ChapterKeys : ret[1][k] = call.journey[k]
      /\ \A k \in ChapterKeys :
            /\ Len(TasksOf(ret[1], k)) = Len(TasksOf(call.journey, k))
            /\ \A i \in 1..Len(TasksOf(call.journey, k)) :
                  /\ TasksOf(ret[1], k)[i]["name"] = TasksOf(call.journey, k)[i]["name"]
                  /\ Unresolvable(TasksOf(call.journey, k)[i]) =>
                        TasksOf(ret[1], k)[i] = TasksOf(call.journey, k)[i]
                  /\ (i > 1 /\ Unresolvable(TasksOf(call.journey, k)[i - 1])
                        /\ TasksOf(call.journey, k)[i] = BossTask
                        /\ "diablo" \in DOMAIN bossesOf(call.static)) =>
                        "boss_data" \in DOMAIN TasksOf(ret[1], k)[i]

\* The first task of chapter 4 names a boss the table does not have: it is
\* as it was, and the boss task after it got its record.
C17_Witness ==
    /\ Merged
    /\ TasksOf(call.journey, "chapter_4")[1] =
          [name |-> "task", type |-> "boss_kill", boss |-> "ghost"]
    /\ TasksOf(ret[1], "chapter_4")[1] = TasksOf(call.journey, "chapter_4")[1]
    /\ "boss_data" \in DOMAIN TasksOf(ret[1], "chapter_4")[2]

\* C18: merging twice yields the same journey as merging once.
C18_Idempotent == (call.fn = "merge_boss_data" /\ Len(ret) = 2) => ret[2] = ret[1]

\* Merged twice, a journey whose first merge attached a record over a
\* stale one.
C18_Witness ==
    /\ call.fn = "merge_boss_data" /\ Len(ret) = 2
    /\ TasksOf(call.journey, "chapter_2")[1] =
          [name |-> "task", type |-> "boss_kill", boss |-> "diablo",
           boss_data |-> [act |-> "stale"]]
    /\ ret[1] # call.journey
    /\ ret[2] = ret[1]

(***************************************************************************)
(* Claims about main, under SpecMain                                       *)
(***************************************************************************)

Ran == call.fn = "main" /\ ret # <<>>

RequiredMissing ==
    StaticStem \notin call.dir \/ JourneyStem \notin call.dir \/ call.build \notin call.dir

\* Step a is in the log before step b.
Before(log, a, b) ==
    \E i, j \in 1..Len(log) : i < j /\ log[i] = a /\ log[j] = b

\* No page is written when a required document is missing, and the page is
\* written only after the required documents were loaded and merged.
WrittenOnlyComplete ==
    /\ RequiredMissing => (~ret[1].written /\ ret[1].status # 0)
    /\ ret[1].written =>
          /\ Before(ret[1].log, "load static", "merge")
          /\ Before(ret[1].log, "load journey", "merge")
          /\ Before(ret[1].log, "load build", "merge")
          /\ Before(ret[1].log, "merge", "write")

Generated == call.fn = "generate" /\ ret /= <<>>

Missing(file) == ~file.exists \/ ~truth(file.yaml)

OtherTabs(r, tab) ==
    IF r.page = <<>> THEN <<>> ELSE <<[t \in TabNames \ {tab} |-> r.page[1][t]]>>

SameButStart(r, f) ==
    /\ r.status = mainGenerate(call.static, call.journey, call.build, f, call.glossary).status
    /\ OtherTabs(r, "start")
        = OtherTabs(mainGenerate(call.static, call.journey, call.build, f, call.glossary), "start")

SameButGlossary(r, f) ==
    /\ r.status = mainGenerate(call.static, call.journey, call.build, call.start, f).status
    /\ OtherTabs(r, "glossary")
        = OtherTabs(mainGenerate(call.static, call.journey, call.build, call.start, f), "glossary")

C20_OptionalPlaceholders ==
    Generated =>
        /\ (Missing(call.start) /\ Missing(call.glossary)) => ret[1].status = 0 /\ ret[1].written
        /\ (Missing(call.start) /\ ret[1].status = 0) => ret[1].page[1].start = StartPlaceholder
        /\ (Missing(call.glossary) /\ ret[1].status = 0)
                => ret[1].page[1].glossary = GlossaryPlaceholder
        /\ Missing(call.start)
                => \A f \in StartFiles : ~raises(loadOptional(f)) => SameButStart(ret[1], f)
        /\ Missing(call.glossary)
                => \A f \in GlossaryFiles : ~raises(loadOptional(f)) => SameButGlossary(ret[1], f)

C20_Witness ==
    /\ Generated
    /\ ~call.start.exists
    /\ call.glossary = Present(None)
    /\ ret[1].written
    /\ ret[1].page[1].start = StartPlaceholder
    /\ ret[1].page[1].glossary = GlossaryPlaceholder
    /\ ret[1].page[1].journey[4] = "Sunwuko"

(***************************************************************************)
(* Further properties of the page, under Spec                              *)
(***************************************************************************)

NumChecked == Cardinality({i \in 1..Len(controls) : checked[i]})

\* v is 100 * n / t rounded to the nearest integer, a half rounded up.
Nearest(v, n, t) == 2 * t * v <= 200 * n + t /\ 200 * n + t < 2 * t * (v + 1)

\* C25: after page load, toggles and resets the displayed progress is
\* round(100 * checked / total) over all checkboxes of the page, the gear
\* checker's flags included, and lies between 0 and 100.
C25_Progress ==
    /\ progress.checked = NumChecked
    /\ progress.total = Len(controls)
    /\ progress.total >= Len(gearFlags(1))
    /\ ~progress.percent.nan
    /\ Nearest(progress.percent.v, NumChecked, Len(controls))
    /\ 0 <= progress.percent.v /\ progress.percent.v <= 100

\* C25 witness: a gear flag and another checkbox are checked and the
\* percentage shown is not the truncated one.
C25_Witness ==
    /\ \E i \in Touchable : checked[i] /\ controls[i].slot # ""
    /\ \E i \in Touchable : checked[i] /\ controls[i].slot = ""
    /\ progress.percent.v > 0
    /\ progress.percent.v * Len(controls) > 100 * NumChecked

\* C26 (as claimed): the advice shown for each of the 13 slots is getAdvice
\* applied to the slot's current flags, with its tier as css class.
C26_AdviceFresh ==
    \A sl \in SlotSet : adviceEl[sl] = updateGearAdvice(sl, controls, checked)

\* C27 (as claimed): every checkbox of the page has a persistence key of
\* its own.
C27_UniqueKeys ==
    Cardinality({Key(controls[i]) : i \in 1..Len(controls)}) = Len(controls)

(***************************************************************************)
(* Independence of the evaluations, under SpecIndep                        *)
(***************************************************************************)

\* Toggling the flag i leaves the advice box of every other slot and every
\* other checkbox as it was.
OtherSlotsKept(i) ==
    /\ \A sl \in SlotSet \ {controls[i].slot} : adviceEl'[sl] = adviceEl[sl]
    /\ \A j \in 1..Len(controls) : j # i => checked'[j] = checked[j]
    /\ adviceEl'[controls[i].slot] = updateGearAdvice(controls[i].slot, controls, checked')

\* Editing the stat st leaves the fill bar and the value text of every
\* other stat, and every checkbox, as they were.
OtherStatsKept(st) ==
    /\ \A o \in StatNames \ {st} : fillEl'[o] = fillEl[o] /\ valueEl'[o] = valueEl[o]
    /\ checked' = checked
    /\ adviceEl' = adviceEl

\* C22: toggling a stat flag of one gear slot changes the advice of no
\* other slot, editing one stat value changes the tier and fill of no other
\* stat, and neither changes a checkbox the user did not toggle.
C22_Independent ==
    [][/\ \A i \in GearTouchable : Toggle(i) => OtherSlotsKept(i)
       /\ \A st \in TwoStats : \A e \in CoarseEntries(st) \cup {<<"-", "5">>} :
            InputEvent(st, e) => OtherStatsKept(st)]_vars

\* C22 witness: flags of two slots were toggled and both stats edited; the
\* advice of the two slots and the tiers of the two stats differ.
C22_Witness ==
    /\ \E i \in GearTouchable : checked[i] /\ controls[i].slot = "mh"
    /\ \E i \in GearTouchable : checked[i] /\ controls[i].slot = "ring1"
    /\ adviceEl["mh"].text = "Dex fehlt -> anderer Stat zu DEX rerolled"
    /\ adviceEl["ring1"].text = "Okay, Socket + 1 Crit Stat"
    /\ fillEl["cdr"].className = "stat-fill ok"
    /\ fillEl["cold"].className = "stat-fill good"

(***************************************************************************)
(* The season namespace of the persisted state, under SpecSeasons          *)
(***************************************************************************)

\* The page of another season comes up with nothing checked: no checklist
\* boolean of the earlier season is read back.
ChecklistNotReadBack == doc'.season # doc.season => \A i \in 1..Len(controls') : ~checked'[i]

\* The page of the next season leaves the checklist mapping of the first
\* season as it is.
ChecklistNotOverwritten ==
    doc'.season = NextSeason
        => getItem(localStorage', "d3s" \o FirstSeason) = getItem(localStorage, "d3s" \o FirstSeason)

\* The page of another season comes up with empty stat inputs, and the page
\* of the next season leaves the stat values the first season saved.
StatsNotReadBack == doc'.season # doc.season => \A st \in StatNames : input'[st] = <<>>

StatsNotOverwritten ==
    doc'.season = NextSeason => PersistedStats(localStorage') = PersistedStats(localStorage)

\* C21 (as claimed): neither the checklist booleans nor the six stat values
\* saved by the page of one season are read back or overwritten by the page
\* of another season.
C21_SeasonNamespace ==
    [][ChecklistNotReadBack /\ ChecklistNotOverwritten
        /\ StatsNotReadBack /\ StatsNotOverwritten]_vars

\* Part (a) of C21 alone: the checklist booleans.
C21_ChecklistNamespace == [][ChecklistNotReadBack /\ ChecklistNotOverwritten]_vars

(***************************************************************************)
(* The search filters, under SpecSearch                                    *)
(***************************************************************************)

IsTerm(i) == "glossary-term" \in cards[i].classes

IsBossOrKeywarden(i) == cards[i].type \in {"boss", "keywarden"}

Matches(i, q) == includes(toLowerCase(cards[i].text), toLowerCase(q))

\* Typing in the boss search changes the hidden state of boss and
\* keywarden cards only.
BossSearchFrame ==
    \A q \in Queries : BossSearch(q)
        => \A i \in 1..Len(cards) : ~IsBossOrKeywarden(i) => hidden'[i] = hidden[i]

\* A glossary term card is hidden iff its text does not contain the
\* current glossary query.
TermsFiltered == \A i \in 1..Len(cards) : IsTerm(i) => (hidden[i] <=> ~Matches(i, query.glossary))

\* With an empty glossary query every glossary term is visible.
EmptyQueryShowsAll == query.glossary = <<>> => \A i \in 1..Len(cards) : IsTerm(i) => ~hidden[i]

\* C28 (as claimed): the boss search changes boss and keywarden cards only,
\* a glossary term is hidden iff it does not match the glossary query, and
\* an empty glossary query leaves every term visible.
C28_SearchIndependent ==
    [][BossSearchFrame /\ TermsFiltered' /\ EmptyQueryShowsAll']_vars

\* The other direction, which holds: the glossary search changes glossary
\* term cards only.
C28_GlossarySearchFrame ==
    [][\A q \in Queries : GlossarySearch(q)
        => \A i \in 1..Len(cards) : ~IsTerm(i) => hidden'[i] = hidden[i]]_vars

====
